---- MODULE Spec2Model ----
(***************************************************************************)
(* Model of the sapthame conductor: the remote-task state manager and      *)
(* Bindu client (sapthame/protocol), the wait_for_task poll loop, and the  *)
(* turn pipeline (action parser, action handler, turn executor).           *)
(***************************************************************************)
EXTENDS Integers, Sequences, FiniteSets, TLC

(***************************************************************************)
(* Bounds of the model.                                                    *)
(***************************************************************************)
\* timestamps handed out by datetime.utcnow() in the task manager
MaxClock == 1
\* largest max_wait passed to wait_for_task, in clock ticks
MaxWait == 2
\* largest poll_interval passed to wait_for_task
MaxPoll == 2
\* longest a single tasks/get round trip takes
MaxRpcTime == 1
\* latest time at which a new wait_for_task / send_and_wait call is started
MaxStart == 1
\* segments (prose and action blocks) in one model text
MaxSegments == 2
\* ScratchpadManager(max_items=...) of the modelled conductor
ScratchpadMaxItems == 2
\* TodoManager(max_items=...) of the modelled conductor
TodoMaxItems == 2
\* agents the router selects for one task
MaxAgents == 3
\* largest in-flight counter the load-balanced router reaches
MaxLoad == 1
\* DistributedOrchestrator(max_concurrent_agents=...) of the modelled orchestrator
MaxConcurrentAgents == 2
\* largest max_turns passed to Conductor.run / run_research_stage
MaxTurns == 2
\* ConversationHistory(max_turns=...) of the modelled conductor
HistoryMaxTurns == 2
\* entries a caller appends to the scratchpad beyond its max_items
MaxExtra == 2

\* URLs given to one discover_agents call
MaxUrls == 2

\* entries of one skill of the skill index
MaxIndexed == 2

(***************************************************************************)
(* Remote tasks (sapthame/protocol/entities/bindu_task.py).                *)
(***************************************************************************)
TaskIds == {"t1", "t2"}
ContextIds == {"c1"}

TaskState ==
  {"submitted", "working", "input-required", "auth-required",
   "completed", "failed", "canceled", "rejected"}

TerminalStates == {"completed", "failed", "canceled", "rejected"}

None == "None"

\* BinduTask: the fields the state manager reads or writes.
BinduTask(id, ctx, st, upd, err) ==
  [taskId |-> id, contextId |-> ctx, state |-> st, updatedAt |-> upd, error |-> err]

\* BinduTask.is_terminal
is_terminal(task) == task.state \in TerminalStates

\* placeholder held by a variable that holds no task yet
NoTask == BinduTask(None, None, None, 0, None)

\* BinduTask.from_dict applied to what the agent answered: any id, context and
\* state; updatedAt is the agent's (or the parse-time) timestamp.
AgentTasks(now) ==
  {BinduTask(id, ctx, st, now, None) : id \in TaskIds, ctx \in ContextIds, st \in TaskState}

VARIABLES
  registry,  \* AgentRegistry: agents and skill_index
  reg_op,  \* the last registry operation, whether all its fetches failed and the registry it found
  ostate,  \* Conductor.state, the State object with its cached dictionary
  state_op,  \* the last operation on the State
  dict_ret,  \* what the last to_dict returned, <<>> when the last operation was another
  pmpc,  \* process_message: where the call is
  task_status,  \* the status column of the task row of this call
  status_log,  \* every status written to that row, in order
  pm_error,  \* the exception in flight, and the one process_message raised
  load_before,  \* LoadBalancedStrategy._agent_load when process_message was called
  route_op,  \* the last call of the load-balanced strategy: its arguments, the load it found and what it returned
  tasks,          \* TaskStateManager.tasks: tracked task id -> BinduTask
  context_tasks,  \* TaskStateManager.context_tasks: context id -> sequence of task ids
  active_tasks,   \* TaskStateManager.active_tasks
  clock,          \* the wall clock read by datetime.utcnow()
  op,             \* the last operation called on the manager or client, and its task id
  ret,            \* what that operation returned ("raised" when it threw)
  wpc,            \* wait_for_task / send_and_wait: where the call is
  wcall,          \* which of the two was called
  wid,            \* task_id being waited for
  max_wait,       \* the call's max_wait
  poll_interval,  \* the call's poll_interval
  start_time,     \* start_time = time.time()
  wnow,           \* time.time()
  wtask,          \* the task of the last poll; the returned task once wpc = "returned"
  tpc,            \* turn pipeline: "idle" between turns, "done" once execute returned
  llm_output,     \* the model text given to TurnExecutor.execute
  scratchpad,     \* ScratchpadManager.content
  todo,           \* TodoManager.items
  agent_trajectories, \* ActionHandler.agent_trajectories
  parsed,         \* what parse_response returned to this execute
  handled,        \* the calls of ActionHandler.handle_action during this execute: the
                  \* action passed and the is_error flag returned
  result,         \* the ExecutionResult execute returned
  query_outcomes, \* how the send_and_wait call of each remote query of this execute
                  \* ended, by the action's position
  cpc,            \* DistributedOrchestrator._execute_*: where the coordination is
  cmode,          \* task_request.execution_mode
  cagents,        \* the agents route_task selected, in selection order
  calls,          \* the send_message calls made so far, in invocation order
  cstep,          \* the loop index i of _execute_sequential / _execute_collaborative
  current_message,\* the content of the message the next agent is sent
  responses,      \* the successful responses collected so far
  recorded,       \* the responses given to context_manager.add_agent_response
  cresult,        \* what the coordination returned, or the message of the error raised
  agent_load,     \* LoadBalancedStrategy._agent_load
  rpc,            \* Conductor.run / run_research_stage: where the call is
  rfn,            \* which of the two was called
  max_turns,      \* the call's max_turns
  turn_logger,    \* Conductor.turn_logger: None unless the caller attached one
  turns_executed, \* the loop's turns_executed
  state_done,     \* State.done
  state_finish_message, \* State.finish_message
  history,        \* ConversationHistory.turns
  history_at_start, \* len(ConversationHistory.turns) when the call was made
  turn_outcome,   \* how the last turn of the loop ended: "raised" or "ok"
  errors_logged,  \* the logger.error records of the loop's except clause
  run_ret,        \* the dictionary the call returned
  todo_op,        \* the last TodoManager operation called directly, its argument
                  \* and the items it found
  cached_prompt,  \* ConversationHistory._cached_prompt: <<>> for None, else <<text>>
  hist_op,        \* the last ConversationHistory operation called directly, its
                  \* argument, and the turns and the cache it found
  prompt_ret,     \* what the last to_prompt returned
  hcall,          \* the last direct call of ActionHandler.handle_action: the action,
                  \* the failure of its collaborator, and how the call ended
  spc,            \* a remote-agent call: where it is
  sclient,        \* the client making it: A2AClient.send_message or
                  \* BinduClient._send_jsonrpc_request
  sent,           \* how each request sent by this call ended, in order
  backoffs,       \* the waits between attempts made by this call
  send_ret,       \* what the call gave its caller
  pad_appended    \* the caller's record of the entries it appended to the scratchpad
                  \* since the scratchpad was empty; valid until it replaces or removes

tmvars == <<tasks, context_tasks, active_tasks, clock, op, ret>>
waitvars == <<wpc, wcall, wid, max_wait, poll_interval, start_time, wnow, wtask>>
turnvars ==
  <<tpc, llm_output, scratchpad, todo, agent_trajectories, parsed, handled, result,
    query_outcomes>>
coordvars ==
  <<cpc, cmode, cagents, calls, cstep, current_message, responses, recorded, cresult,
    agent_load>>
runvars ==
  <<rpc, rfn, max_turns, turn_logger, turns_executed, state_done, state_finish_message,
    history, history_at_start, turn_outcome, errors_logged, run_ret>>
padvars == <<pad_appended>>
todovars == <<todo_op>>
histvars == <<cached_prompt, hist_op, prompt_ret>>
sendvars == <<spc, sclient, sent, backoffs, send_ret>>
routevars == <<route_op>>
pmvars == <<pmpc, task_status, status_log, pm_error, load_before>>
statevars == <<ostate, state_op, dict_ret>>
regvars == <<registry, reg_op>>
vars ==
  <<tmvars, waitvars, turnvars, coordvars, runvars, padvars, todovars, histvars, hcall,
    sendvars,
    routevars,
    pmvars,
    statevars,
    regvars>>

\* the manager's three collections as one value
Manager(t, c, a) == [tasks |-> t, context_tasks |-> c, active_tasks |-> a]

CurManager == Manager(tasks, context_tasks, active_tasks)

\* TaskStateManager.__init__
EmptyManager ==
  Manager(<<>>, [c \in ContextIds |-> <<>>], {})

InSeq(x, s) == \E i \in 1..Len(s) : s[i] = x

Tracked(m, id) == id \in DOMAIN m.tasks

\* self.tasks[task_id] = task
Put(t, id, task) ==
  [x \in (DOMAIN t) \cup {id} |-> IF x = id THEN task ELSE t[x]]

\* an add_task that marks every added task active
add_task_always_active(m, task) ==
  Manager(Put(m.tasks, task.taskId, task),
          IF InSeq(task.taskId, m.context_tasks[task.contextId])
            THEN m.context_tasks
            ELSE [m.context_tasks EXCEPT ![task.contextId] = Append(@, task.taskId)],
          m.active_tasks \cup {task.taskId})

\* TaskStateManager.add_task: an unconditional upsert of the given task.
add_task(m, task) ==
  LET id  == task.taskId
      ctx == task.contextId
  IN  Manager(
        Put(m.tasks, id, task),
        IF InSeq(id, m.context_tasks[ctx])
          THEN m.context_tasks
          ELSE [m.context_tasks EXCEPT ![ctx] = Append(@, id)],
        IF is_terminal(task)
          THEN m.active_tasks \ {id}
          ELSE m.active_tasks \cup {id})

\* update_task_state without the terminal check of lines 115-118
update_task_state_unguarded(m, id, st, kw, now) ==
  IF ~(id \in DOMAIN m.tasks) THEN [m |-> m, ret |-> FALSE]
  ELSE LET t1 == [m.tasks[id] EXCEPT !.state = st, !.updatedAt = now]
           t2 == IF kw = None THEN t1 ELSE [t1 EXCEPT !.error = kw]
       IN  [m |-> Manager(
                    Put(m.tasks, id, t2),
                    m.context_tasks,
                    IF is_terminal(t2) THEN m.active_tasks \ {id} ELSE m.active_tasks),
            ret |-> TRUE]

\* The result of TaskStateManager.update_task_state: the manager afterwards and
\* the returned flag. kw is the error= keyword, None when not passed.
update_task_state(m, id, st, kw, now) ==
  IF ~Tracked(m, id) THEN [m |-> m, ret |-> FALSE]
  ELSE IF is_terminal(m.tasks[id]) THEN [m |-> m, ret |-> FALSE]
  ELSE LET t1 == [m.tasks[id] EXCEPT !.state = st, !.updatedAt = now]
           t2 == IF kw = None THEN t1 ELSE [t1 EXCEPT !.error = kw]
       IN  [m |-> Manager(
                    Put(m.tasks, id, t2),
                    m.context_tasks,
                    IF is_terminal(t2) THEN m.active_tasks \ {id} ELSE m.active_tasks),
            ret |-> TRUE]

\* TaskStateManager.reset
reset(m) == EmptyManager

\* add_task for each task of a list, in order
RECURSIVE add_all(_, _)
add_all(m, ts) ==
  IF ts = <<>> THEN m ELSE add_all(add_task(m, Head(ts)), Tail(ts))

SetManager(m) ==
  /\ tasks' = m.tasks
  /\ context_tasks' = m.context_tasks
  /\ active_tasks' = m.active_tasks

\* What a JSON-RPC call can come back with: a transport failure (requests
\* raises), an error envelope, or a result.
RpcOutcomes == {"transport_error", "error_envelope", "ok"}

\* a client call that returns the parsed task without registering it
rpc_task_call_untracked(m, outcome, task) ==
  [m |-> m, ret |-> IF outcome = "ok" THEN "task" ELSE "raised"]

\* BinduClient.send_message / get_task / cancel_task, as seen by the state
\* manager: on a result the parsed task is upserted and returned, otherwise
\* the call raises before the manager is touched.
rpc_task_call(m, outcome, task) ==
  IF outcome = "ok"
    THEN [m |-> add_task(m, task), ret |-> "task"]
    ELSE [m |-> m, ret |-> "raised"]

\* BinduClient.list_tasks: every task of the answer is upserted, in order.
list_tasks(m, outcome, ts) ==
  IF outcome = "ok"
    THEN [m |-> add_all(m, ts), ret |-> "tasks"]
    ELSE [m |-> m, ret |-> "raised"]

\* The answers to tasks/list: no task, one task, or two tasks.
ListAnswers(now) ==
  {<<>>} \cup {<<t>> : t \in AgentTasks(now)}
         \cup {<<t, u>> : t \in {x \in AgentTasks(now) : x.taskId = "t1"},
                          u \in {x \in AgentTasks(now) :
                                   x.taskId = "t2" /\ x.state \in {"working", "completed"}}}

(***************************************************************************)
(* Actions of the task manager and client.                                 *)
(***************************************************************************)
UpdateTaskState(id, st, kw) ==
  LET r == update_task_state(CurManager, id, st, kw, clock + 1) IN
  /\ r.ret => clock < MaxClock
  /\ SetManager(r.m)
  /\ clock' = IF r.ret THEN clock + 1 ELSE clock
  /\ op' = <<"update_task_state", id>>
  /\ ret' = IF r.ret THEN "True" ELSE "False"
  /\ UNCHANGED <<regvars, statevars, pmvars, routevars, sendvars, hcall, histvars, todovars, padvars, runvars, waitvars, turnvars, coordvars>>

\* One of send_message, get_task, cancel_task: outcome is how the RPC came
\* back and task the task parsed from a result.
ClientCall(name, outcome, task) ==
  LET r == rpc_task_call(CurManager, outcome, task) IN
  /\ SetManager(r.m)
  /\ op' = <<name, IF outcome = "ok" THEN task.taskId ELSE None>>
  /\ ret' = r.ret
  /\ UNCHANGED <<regvars, statevars, pmvars, routevars, sendvars, hcall, histvars, todovars, padvars, runvars, clock, waitvars, turnvars, coordvars>>

ClientCalls(name) ==
  \/ \E o \in RpcOutcomes \ {"ok"} : ClientCall(name, o, NoTask)
  \/ \E t \in AgentTasks(clock) : ClientCall(name, "ok", t)

SendMessage == ClientCalls("send_message")

GetTask     == ClientCalls("get_task")

CancelTask  == ClientCalls("cancel_task")

ListTasksCall(outcome, ts) ==
  LET r == list_tasks(CurManager, outcome, ts) IN
  /\ SetManager(r.m)
  /\ op' = <<"list_tasks", None>>
  /\ ret' = r.ret
  /\ UNCHANGED <<regvars, statevars, pmvars, routevars, sendvars, hcall, histvars, todovars, padvars, runvars, clock, waitvars, turnvars, coordvars>>

ListTasks ==
  \/ \E o \in RpcOutcomes \ {"ok"} : ListTasksCall(o, <<>>)
  \/ \E ts \in ListAnswers(clock) : ListTasksCall("ok", ts)

Reset ==
  /\ SetManager(reset(CurManager))
  /\ op' = <<"reset", None>>
  /\ ret' = None
  /\ UNCHANGED <<regvars, statevars, pmvars, routevars, sendvars, hcall, histvars, todovars, padvars, runvars, clock, waitvars, turnvars, coordvars>>

Update == \E id \in TaskIds, st \in TaskState, kw \in {None, "e1"} : UpdateTaskState(id, st, kw)

NextTasks == Update \/ SendMessage \/ GetTask \/ CancelTask \/ ListTasks \/ Reset


(***************************************************************************)
(* BinduClient.wait_for_task and send_and_wait                             *)
(* (sapthame/protocol/bindu_client.py).                                    *)
(***************************************************************************)
\* the task id the calls of this specification wait for
WaitIds == {"t1"}

\* what the agent answers to tasks/get for task id: the task in any state
PollAnswers(id, now) == {BinduTask(id, "c1", st, now, None) : st \in TaskState}

\* wait_for_task without the TimeoutError: the task is returned once max_wait
\* has elapsed
wait_decide_returns_late(task, elapsed, mw) ==
  IF is_terminal(task) THEN "returned"
  ELSE IF elapsed > mw THEN "returned"
  ELSE "sleep"

\* wait_for_task comparing with >= : the timeout fires with elapsed = max_wait
wait_decide_early(task, elapsed, mw) ==
  IF is_terminal(task) THEN "returned"
  ELSE IF elapsed >= mw THEN "timeout"
  ELSE "sleep"

\* One pass of wait_for_task's loop after get_task answered with task:
\* return it, raise TimeoutError, or sleep and poll again.
wait_decide(task, elapsed, mw) ==
  IF is_terminal(task) THEN "returned"
  ELSE IF elapsed > mw THEN "timeout"
  ELSE "sleep"

WaitFinished == wpc \in {"idle", "returned", "timeout", "raised"}

WaitForTask ==
  \E id \in WaitIds, pi \in 1..MaxPoll, mw \in 0..MaxWait :
    /\ WaitFinished
    /\ wnow <= MaxStart
    /\ wcall' = "wait_for_task"
    /\ wid' = id
    /\ poll_interval' = pi
    /\ max_wait' = mw
    /\ start_time' = wnow
    /\ wtask' = NoTask
    /\ wpc' = "poll"
    /\ UNCHANGED <<regvars, statevars, pmvars, routevars, sendvars, hcall, histvars, todovars, padvars, runvars, tmvars, wnow, turnvars, coordvars>>

\* send_and_wait: send_message, then wait_for_task on the id of the task it
\* returned; a failed send raises before any wait starts.
SendAndWaitCall(outcome, task, pi, mw) ==
  LET r == rpc_task_call(CurManager, outcome, task) IN
  /\ WaitFinished
  /\ wnow <= MaxStart
  /\ SetManager(r.m)
  /\ wcall' = "send_and_wait"
  /\ wid' = IF r.ret = "raised" THEN None ELSE task.taskId
  /\ poll_interval' = pi
  /\ max_wait' = mw
  /\ start_time' = wnow
  /\ wtask' = NoTask
  /\ wpc' = IF r.ret = "raised" THEN "raised" ELSE "poll"
  /\ UNCHANGED <<regvars, statevars, pmvars, routevars, sendvars, hcall, histvars, todovars, padvars, runvars, clock, op, ret, wnow, turnvars, coordvars>>

SendAndWait ==
  \E pi \in 1..MaxPoll, mw \in 0..MaxWait :
    \/ \E o \in RpcOutcomes \ {"ok"} : SendAndWaitCall(o, NoTask, pi, mw)
    \/ \E id \in WaitIds : \E t \in PollAnswers(id, clock) : SendAndWaitCall("ok", t, pi, mw)

\* task = self.get_task(task_id), which takes d ticks, then the checks of
\* the loop body up to the sleep.
PollCall(outcome, task, d) ==
  LET r == rpc_task_call(CurManager, outcome, task)
      elapsed == (wnow + d) - start_time
  IN
  /\ wpc = "poll"
  /\ wnow' = wnow + d
  /\ SetManager(r.m)
  /\ IF r.ret = "raised"
       THEN /\ wpc' = "raised"
            /\ wtask' = wtask
       ELSE /\ wpc' = wait_decide(task, elapsed, max_wait)
            /\ wtask' = task
  /\ UNCHANGED <<regvars, statevars, pmvars, routevars, sendvars, hcall, histvars, todovars, padvars, runvars, clock, op, ret, wcall, wid, max_wait, poll_interval, start_time, turnvars, coordvars>>

Poll ==
  \E d \in 0..MaxRpcTime :
    \/ \E o \in RpcOutcomes \ {"ok"} : PollCall(o, NoTask, d)
    \/ \E t \in PollAnswers(wid, clock) : PollCall("ok", t, d)

\* time.sleep(poll_interval)
Sleep ==
  /\ wpc = "sleep"
  /\ wnow' = wnow + poll_interval
  /\ wpc' = "poll"
  /\ UNCHANGED <<regvars, statevars, pmvars, routevars, sendvars, hcall, histvars, todovars, padvars, runvars, tmvars, wcall, wid, max_wait, poll_interval, start_time, wtask, turnvars, coordvars>>

NextWait == WaitForTask \/ SendAndWait \/ Poll \/ Sleep


(***************************************************************************)
(* Model text and the action parser                                        *)
(* (sapthame/orchestrator/actions/parser.py).                              *)
(*                                                                         *)
(* The model text is a sequence of segments: prose that the action pattern *)
(* does not match, and action blocks <action type="T">...</action>.  A     *)
(* block carries its type attribute, whether its content is well-formed    *)
(* XML, and the raw text of each nested field element.                     *)
(***************************************************************************)
\* raw text of a field whose element is not in the block
Absent == "<absent>"

FieldNames ==
  {"agent_id", "query", "context_id", "content", "operation", "item", "index",
   "message", "summary"}

NoFields == [n \in FieldNames |-> Absent]

Prose == [kind |-> "prose", type |-> None, xml |-> TRUE, f |-> NoFields]

Block(t, wellformed, fields) ==
  [kind |-> "block", type |-> t, xml |-> wellformed, f |-> fields]

\* the nested fields given by the pairs <<name, raw text>> of s
RECURSIVE WithFields(_, _)
WithFields(f, s) ==
  IF s = <<>> THEN f
  ELSE WithFields([f EXCEPT ![Head(s)[1]] = Head(s)[2]], Tail(s))

Blk(t, s) == Block(t, TRUE, WithFields(NoFields, s))

\* The segments model texts are built from.
Segments ==
  { Prose,
    Blk("think", <<<<"content", "a">>>>),
    Block("think", FALSE, NoFields),
    Block("update_todo", FALSE, NoFields),
    Blk("query_agent", <<<<"agent_id", "ag1">>, <<"query", "q">>>>),
    Blk("query_agent", <<<<"agent_id", "ghost">>, <<"query", "q">>, <<"context_id", "c1">>>>),
    Blk("query_agent", <<<<"agent_id", "ag1">>>>),
    Blk("update_scratchpad", <<<<"content", "a">>, <<"operation", "append">>>>),
    Blk("update_scratchpad", <<<<"content", " a ">>, <<"operation", "replace">>>>),
    Blk("update_scratchpad", <<<<"content", "a">>, <<"operation", "clear">>>>),
    Blk("update_scratchpad", <<<<"content", "">>, <<"operation", "clear">>>>),
    Blk("update_scratchpad", <<<<"content", "a">>>>),
    Blk("update_scratchpad", <<<<"content", "a">>, <<"operation", "bogus">>>>),
    Blk("update_todo", <<<<"item", "a">>, <<"operation", "add">>>>),
    Blk("update_todo", <<<<"item", " ">>, <<"operation", "add">>>>),
    Blk("update_todo", <<<<"item", "a">>, <<"operation", "complete">>, <<"index", "0">>>>),
    Blk("update_todo", <<<<"item", "a">>, <<"operation", "remove">>, <<"index", "0">>>>),
    Blk("update_todo", <<<<"item", "a">>, <<"operation", "complete">>>>),
    Blk("update_todo", <<<<"item", "a">>, <<"operation", "remove">>, <<"index", "-1">>>>),
    Blk("update_todo", <<<<"item", "a">>, <<"operation", "complete">>, <<"index", "x">>>>),
    Blk("finish_stage", <<<<"message", "m">>, <<"summary", "s">>>>),
    Blk("finish_stage", <<<<"summary", "s">>>>) }

\* str.strip() on the raw texts of the model
Strip(raw) ==
  CASE raw = " " -> ""
    [] raw = " a " -> "a"
    [] OTHER -> raw

\* int(text): the integer a stripped text denotes, <<>> when int() raises
\* ValueError
IntOf(text) ==
  CASE text = "0" -> <<0>>
    [] text = "1" -> <<1>>
    [] text = "2" -> <<2>>
    [] text = "-1" -> <<-1>>
    [] OTHER -> <<>>

\* str(n) for the integers of the model
Str(n) ==
  CASE n = 0 -> "0"
    [] n = 1 -> "1"
    [] n = 2 -> "2"
    [] n = -1 -> "-1"
    [] OTHER -> "?"

Ok(v) == [ok |-> TRUE, v |-> v, err |-> ""]
Raise(msg) == [ok |-> FALSE, v |-> <<>>, err |-> msg]

\* ActionParser._get_text: elem is not None and elem.text is non-empty
HasText(b, tag) == b.f[tag] # Absent /\ b.f[tag] # ""

_get_text(b, tag, required, default) ==
  IF HasText(b, tag) THEN Ok(Strip(b.f[tag]))
  ELSE IF required THEN Raise("Required tag '" \o tag \o "' not found or empty")
  ELSE Ok(default)

\* ActionParser._get_int; a present integer n is <<n>>, None is <<>>
_get_int(b, tag, required) ==
  IF HasText(b, tag)
    THEN IF IntOf(Strip(b.f[tag])) = <<>>
           THEN Raise("invalid literal for int() with base 10: '" \o Strip(b.f[tag]) \o "'")
           ELSE Ok(IntOf(Strip(b.f[tag])))
  ELSE IF required THEN Raise("Required tag '" \o tag \o "' not found or empty")
  ELSE Ok(<<>>)

QueryAgentAction(a, q, c) ==
  [type |-> "query_agent", agent_id |-> a, query |-> q, context_id |-> c]

UpdateScratchpadAction(c, o) ==
  [type |-> "update_scratchpad", content |-> c, operation |-> o]

UpdateTodoAction(i, o, idx) ==
  [type |-> "update_todo", item |-> i, operation |-> o, index |-> idx]

FinishStageAction(m, sm) ==
  [type |-> "finish_stage", message |-> m, summary |-> sm]

\* the first of the results rs that raised, or Ok(<<>>) when none did:
\* Python evaluates the constructor's arguments in order
RECURSIVE FirstRaise(_)
FirstRaise(rs) ==
  IF rs = <<>> THEN Ok(<<>>)
  ELSE IF ~Head(rs).ok THEN Head(rs)
  ELSE FirstRaise(Tail(rs))

\* ActionParser._parse_action: Ok(<<action>>), Ok(<<>>) for None (unknown
\* type), or the exception raised.
_parse_action(b) ==
  IF ~b.xml THEN Raise("not well-formed (invalid token)")
  ELSE IF b.type = "query_agent" THEN
    LET a == _get_text(b, "agent_id", TRUE, "")
        q == _get_text(b, "query", TRUE, "")
        c == _get_text(b, "context_id", FALSE, "")
        e == FirstRaise(<<a, q, c>>)
    IN  IF e.ok THEN Ok(<<QueryAgentAction(a.v, q.v, c.v)>>) ELSE e
  ELSE IF b.type = "update_scratchpad" THEN
    LET c == _get_text(b, "content", TRUE, "")
        o == _get_text(b, "operation", TRUE, "append")
        e == FirstRaise(<<c, o>>)
    IN  IF e.ok THEN Ok(<<UpdateScratchpadAction(c.v, o.v)>>) ELSE e
  ELSE IF b.type = "update_todo" THEN
    LET i == _get_text(b, "item", TRUE, "")
        o == _get_text(b, "operation", TRUE, "add")
        x == _get_int(b, "index", FALSE)
        e == FirstRaise(<<i, o, x>>)
    IN  IF e.ok THEN Ok(<<UpdateTodoAction(i.v, o.v, x.v)>>) ELSE e
  ELSE IF b.type = "finish_stage" THEN
    LET m == _get_text(b, "message", TRUE, "")
        sm == _get_text(b, "summary", TRUE, "")
        e == FirstRaise(<<m, sm>>)
    IN  IF e.ok THEN Ok(<<FinishStageAction(m.v, sm.v)>>) ELSE e
  ELSE Ok(<<>>)

\* re.finditer(action_pattern, llm_output): the blocks of the text, in order
IsBlock(seg) == seg.kind = "block"

Matches(text) == SelectSeq(text, IsBlock)

Parsed(acts, errs, found) ==
  [actions |-> acts, parsing_errors |-> errs, found_action_attempt |-> found]

\* the body of the loop of parse_response for the match b, r being what
\* _parse_action(b) returned or raised
parse_match(b, r, acc) ==
  IF r.ok
    THEN Parsed(acc.actions \o r.v, acc.parsing_errors, TRUE)
    ELSE Parsed(acc.actions,
                Append(acc.parsing_errors,
                       "Failed to parse " \o b.type \o " action: " \o r.err),
                TRUE)

\* parse_response aborting at the first block that fails to parse
RECURSIVE parse_matches_abort(_, _)
parse_matches_abort(ms, acc) ==
  IF ms = <<>> THEN acc
  ELSE IF ~_parse_action(Head(ms)).ok
    THEN parse_match(Head(ms), _parse_action(Head(ms)), acc)
  ELSE parse_matches_abort(Tail(ms), parse_match(Head(ms), _parse_action(Head(ms)), acc))

\* the loop of parse_response over the matches ms
RECURSIVE parse_matches(_, _)
parse_matches(ms, acc) ==
  IF ms = <<>> THEN acc
  ELSE parse_matches(Tail(ms), parse_match(Head(ms), _parse_action(Head(ms)), acc))

\* ActionParser.parse_response
parse_response(text) == parse_matches(Matches(text), Parsed(<<>>, <<>>, FALSE))

(***************************************************************************)
(* Working-memory stores (sapthame/orchestrator/state_managers).           *)
(***************************************************************************)
\* the last n elements of s: s[-n:] for n >= 1
LastN(s, n) == IF Len(s) <= n THEN s ELSE SubSeq(s, Len(s) - n + 1, Len(s))

\* not text or not text.strip()
IsBlank(text) == text = "" \/ Strip(text) = ""

\* an append that drops the new entry when the scratchpad is full
scratchpad_append_drop_newest(content, text) ==
  IF IsBlank(text) \/ Len(content) >= ScratchpadMaxItems THEN content
  ELSE Append(content, Strip(text))

\* ScratchpadManager.append
scratchpad_append(content, text) ==
  IF IsBlank(text) THEN content
  ELSE LET c == Append(content, Strip(text))
       IN  IF Len(c) > ScratchpadMaxItems THEN LastN(c, ScratchpadMaxItems) ELSE c

\* ScratchpadManager.replace
scratchpad_replace(content, text) ==
  IF IsBlank(text) THEN <<>> ELSE <<Strip(text)>>

\* ScratchpadManager.clear
scratchpad_clear(content) == <<>>

\* ScratchpadManager.remove_item: the content afterwards and the returned flag
scratchpad_remove_item(content, index) ==
  IF 0 <= index /\ index < Len(content)
    THEN [content |-> SubSeq(content, 1, index) \o SubSeq(content, index + 2, Len(content)),
          ret |-> TRUE]
    ELSE [content |-> content, ret |-> FALSE]

TodoItem(text) == [text |-> text, completed |-> FALSE]

NotCompleted(item) == ~item.completed

\* a prune that evicts the oldest items whether completed or not
_prune_items_oldest_first(items) ==
  IF Len(items) > TodoMaxItems THEN LastN(items, TodoMaxItems) ELSE items

\* TodoManager._prune_items
_prune_items(items) ==
  LET kept == IF \E i \in 1..Len(items) : items[i].completed
                THEN SelectSeq(items, NotCompleted)
                ELSE items
  IN  IF Len(kept) > TodoMaxItems THEN LastN(kept, TodoMaxItems) ELSE kept

\* an add_item that refuses the item when the list is full
add_item_rejects_when_full(items, item) ==
  IF IsBlank(item) \/ Len(items) >= TodoMaxItems THEN [items |-> items, ret |-> FALSE]
  ELSE [items |-> Append(items, TodoItem(Strip(item))), ret |-> TRUE]

\* TodoManager.add_item: the items afterwards and the returned flag
add_item(items, item) ==
  IF IsBlank(item) THEN [items |-> items, ret |-> FALSE]
  ELSE LET a == Append(items, TodoItem(Strip(item)))
       IN  [items |-> IF Len(a) > TodoMaxItems THEN _prune_items(a) ELSE a,
            ret |-> TRUE]

\* TodoManager.complete_item (index is zero-based)
complete_item(items, index) ==
  IF 0 <= index /\ index < Len(items)
    THEN [items |-> [items EXCEPT ![index + 1].completed = TRUE], ret |-> TRUE]
    ELSE [items |-> items, ret |-> FALSE]

\* TodoManager.uncomplete_item (index is zero-based)
uncomplete_item(items, index) ==
  IF 0 <= index /\ index < Len(items)
    THEN [items |-> [items EXCEPT ![index + 1].completed = FALSE], ret |-> TRUE]
    ELSE [items |-> items, ret |-> FALSE]

\* list.pop(index)
Pop(s, i) == SubSeq(s, 1, i - 1) \o SubSeq(s, i + 1, Len(s))

\* TodoManager.remove_item
remove_item(items, index) ==
  IF 0 <= index /\ index < Len(items)
    THEN [items |-> Pop(items, index + 1), ret |-> TRUE]
    ELSE [items |-> items, ret |-> FALSE]

(***************************************************************************)
(* Action handler (sapthame/orchestrator/actions/handler.py).              *)
(***************************************************************************)
\* AgentRegistry.agents of the modelled conductor
RegisteredAgents == {"ag1"}

\* the methods class BinduTask defines
BinduTaskMethods == {"to_dict", "from_dict", "is_terminal", "is_working", "needs_input"}

\* the attributes of BinduTask and of TaskMessage
BinduTaskAttrs ==
  {"taskId", "contextId", "state", "messages", "artifacts", "referenceTaskIds",
   "createdAt", "updatedAt", "prompt", "authType", "service", "error"}

TaskMessageAttrs == {"messageId", "role", "content", "timestamp"}

\* How client.send_and_wait ends for a registered agent: it raises (transport
\* failure, error envelope, TimeoutError) or returns a task in a terminal state.
QueryOutcomes == {"raised", "completed", "failed"}

\* the working memory the handler acts on
Stores(sp, td, tr) == [scratchpad |-> sp, todo |-> td, trajectories |-> tr]

Handled(st, out, err) == [st |-> st, out |-> out, is_error |-> err]

AttributeError(cls, attr) == "'" \o cls \o "' object has no attribute '" \o attr \o "'"

\* ActionHandler._extract_task_response on a task with a last message: the
\* text attribute of the message, else task.result
_extract_task_response(text) ==
  IF "text" \in TaskMessageAttrs THEN Ok(text)
  ELSE IF "result" \in BinduTaskAttrs THEN Ok("No response")
  ELSE Raise(AttributeError("BinduTask", "result"))

\* a handler that calls the agent before it looks the agent up
makes_remote_call_unchecked(action) == action.type = "query_agent"

\* ActionHandler.handle_action constructs a BinduClient and calls
\* send_and_wait for the action: only for a QueryAgentAction whose agent the
\* registry knows
makes_remote_call(action) ==
  action.type = "query_agent" /\ action.agent_id \in RegisteredAgents

\* ActionHandler._handle_query_agent; outcome is how send_and_wait ended and
\* tid the id of the remote task
_handle_query_agent(st, action, outcome, tid) ==
  IF action.agent_id \notin RegisteredAgents
    THEN Handled(st, "Agent '" \o action.agent_id \o "' not found in registry", TRUE)
  ELSE IF outcome = "raised"
    THEN Handled(st, "Error querying agent " \o action.agent_id \o ": send_and_wait raised", TRUE)
  ELSE IF "is_completed" \notin BinduTaskMethods
    THEN Handled(st, "Error querying agent " \o action.agent_id \o ": "
                       \o AttributeError("BinduTask", "is_completed"), TRUE)
  ELSE IF outcome = "completed"
    THEN LET r == _extract_task_response("answer") IN
         IF ~r.ok
           THEN Handled(st, "Error querying agent " \o action.agent_id \o ": " \o r.err, TRUE)
           ELSE Handled(
                  [st EXCEPT !.trajectories =
                     [k \in (DOMAIN @) \cup {tid} |->
                        IF k = tid
                          THEN [agent_id |-> action.agent_id, query |-> action.query,
                                response |-> r.v, task_id |-> tid]
                          ELSE @[k]]],
                  "Agent " \o action.agent_id \o " responded:\n" \o r.v, FALSE)
  ELSE Handled(st, "Agent " \o action.agent_id \o " task did not complete: " \o outcome, TRUE)

\* ActionHandler._handle_update_scratchpad
_handle_update_scratchpad(st, action) ==
  IF action.operation = "append"
    THEN Handled([st EXCEPT !.scratchpad = scratchpad_append(@, action.content)],
                 "Scratchpad updated (appended)", FALSE)
  ELSE IF action.operation = "replace"
    THEN Handled([st EXCEPT !.scratchpad = scratchpad_replace(@, action.content)],
                 "Scratchpad updated (replaced)", FALSE)
  ELSE IF action.operation = "clear"
    THEN Handled([st EXCEPT !.scratchpad = scratchpad_clear(@)], "Scratchpad cleared", FALSE)
  ELSE Handled(st, "Unknown scratchpad operation: " \o action.operation, TRUE)

\* ActionHandler._handle_update_todo
_handle_update_todo(st, action) ==
  IF action.operation = "add"
    THEN Handled([st EXCEPT !.todo = add_item(@, action.item).items],
                 "Added todo item: " \o action.item, FALSE)
  ELSE IF action.operation = "complete"
    THEN IF action.index # <<>>
           THEN Handled([st EXCEPT !.todo = complete_item(@, action.index[1]).items],
                        "Completed todo item " \o Str(action.index[1]), FALSE)
           ELSE Handled(st, "Complete operation requires index", TRUE)
  ELSE IF action.operation = "remove"
    THEN IF action.index # <<>>
           THEN Handled([st EXCEPT !.todo = remove_item(@, action.index[1]).items],
                        "Removed todo item " \o Str(action.index[1]), FALSE)
           ELSE Handled(st, "Remove operation requires index", TRUE)
  ELSE Handled(st, "Unknown todo operation: " \o action.operation, TRUE)

\* ActionHandler._handle_finish_stage
_handle_finish_stage(st, action) ==
  Handled(st, "Stage finished: " \o action.message, FALSE)

\* ActionHandler.handle_action: dispatch on the action's variant
handle_action(st, action, outcome, tid) ==
  IF action.type = "query_agent" THEN _handle_query_agent(st, action, outcome, tid)
  ELSE IF action.type = "update_scratchpad" THEN _handle_update_scratchpad(st, action)
  ELSE IF action.type = "update_todo" THEN _handle_update_todo(st, action)
  ELSE IF action.type = "finish_stage" THEN _handle_finish_stage(st, action)
  ELSE Handled(st, "Unknown action type: " \o action.type, TRUE)

(***************************************************************************)
(* Turn executor (sapthame/orchestrator/turn_executor.py).                 *)
(***************************************************************************)
\* ExecutionResult
ExecutionResult(acts, resps, err, dn, fin, traj) ==
  [actions_executed |-> acts, env_responses |-> resps, has_error |-> err,
   done |-> dn, finish_message |-> fin, agent_trajectories |-> traj]

NoResult == ExecutionResult(<<>>, <<>>, FALSE, FALSE, None, <<>>)


\* f"[PARSE ERROR] {error}" for each parsing error
RECURSIVE ParseErrorResponses(_)
ParseErrorResponses(errs) ==
  IF errs = <<>> THEN <<>>
  ELSE <<"[PARSE ERROR] " \o Head(errs)>> \o ParseErrorResponses(Tail(errs))

\* the local variables of execute while it runs the actions
Run(st, executed, resps, err, fin, dn, hd) ==
  [st |-> st, actions_executed |-> executed, env_responses |-> resps,
   has_error |-> err, finish_message |-> fin, done |-> dn, handled |-> hd]

OutcomeAt(oc, i) == IF i \in DOMAIN oc THEN oc[i] ELSE None

TaskIdAt(i) == "task" \o Str(i)

\* the loop body with has_error = is_error in place of setting it on error
execute_action_overwrite(run, action, h) ==
  Run(h.st,
      Append(run.actions_executed, action),
      Append(run.env_responses, h.out),
      h.is_error,
      run.finish_message, run.done,
      Append(run.handled, [action |-> action, is_error |-> h.is_error,
                           remote_call |-> makes_remote_call(action)]))

\* the body of the for loop of execute up to the isinstance test: h is what
\* handle_action returned for action
execute_action(run, action, h) ==
  Run(h.st,
      Append(run.actions_executed, action),
      Append(run.env_responses, h.out),
      run.has_error \/ h.is_error,
      run.finish_message, run.done,
      Append(run.handled, [action |-> action, is_error |-> h.is_error,
                           remote_call |-> makes_remote_call(action)]))

\* the for loop without the break at a FinishStageAction
RECURSIVE execute_actions_no_break(_, _, _, _)
execute_actions_no_break(actions, i, oc, run) ==
  IF i > Len(actions) THEN run
  ELSE LET after == execute_action(run, actions[i],
                      handle_action(run.st, actions[i], OutcomeAt(oc, i), TaskIdAt(i)))
       IN  execute_actions_no_break(actions, i + 1, oc,
             IF actions[i].type = "finish_stage"
               THEN [after EXCEPT !.finish_message = actions[i].message, !.done = TRUE]
               ELSE after)

\* The for loop of execute from the i-th action on: handle the action, append
\* it and its response, and break at a FinishStageAction.
RECURSIVE execute_actions(_, _, _, _)
execute_actions(actions, i, oc, run) ==
  IF i > Len(actions) THEN run
  ELSE LET after == execute_action(run, actions[i],
                      handle_action(run.st, actions[i], OutcomeAt(oc, i), TaskIdAt(i)))
       IN  IF actions[i].type = "finish_stage"
             THEN [after EXCEPT !.finish_message = actions[i].message, !.done = TRUE]
             ELSE execute_actions(actions, i + 1, oc, after)

\* what execute leaves behind: the stores, the parse result, the actions the
\* handler was called with, and the returned ExecutionResult
Executed(st, p, hd, res) == [st |-> st, parsed |-> p, handled |-> hd, result |-> res]

\* TurnExecutor.execute on model text, with the stores st and the outcomes oc
\* of the remote calls its query actions make.
\* the end of execute after the for loop: collect and clear the agent
\* trajectories and build the ExecutionResult
execute_return(p, run) ==
  Executed([run.st EXCEPT !.trajectories = <<>>], p, run.handled,
    ExecutionResult(run.actions_executed, run.env_responses, run.has_error,
                    run.done, run.finish_message,
                    IF run.st.trajectories = <<>> THEN <<>> ELSE <<run.st.trajectories>>))

\* execute without the test of found_action_attempt
execute_parsed_no_attempt_test(p, st, oc) ==
  IF p.parsing_errors # <<>> /\ p.actions = <<>>
    THEN Executed(st, p, <<>>,
           ExecutionResult(<<>>, ParseErrorResponses(p.parsing_errors), TRUE, FALSE, None, <<>>))
  ELSE execute_return(p,
         execute_actions(p.actions, 1, oc,
           Run(st, <<>>, ParseErrorResponses(p.parsing_errors),
               p.parsing_errors # <<>>, None, FALSE, <<>>)))

\* execute whose early return on parse errors ends the stage (done=True)
execute_parsed_errors_done(p, st, oc) ==
  IF ~p.found_action_attempt
    THEN Executed(st, p, <<>>,
           ExecutionResult(<<>>, <<"No actions were attempted.">>, TRUE, TRUE, None, <<>>))
  ELSE IF p.parsing_errors # <<>> /\ p.actions = <<>>
    THEN Executed(st, p, <<>>,
           ExecutionResult(<<>>, ParseErrorResponses(p.parsing_errors), TRUE, TRUE, None, <<>>))
  ELSE execute_return(p,
         execute_actions(p.actions, 1, oc,
           Run(st, <<>>, ParseErrorResponses(p.parsing_errors),
               p.parsing_errors # <<>>, None, FALSE, <<>>)))

\* execute after parse_response returned p
execute_parsed(p, st, oc) ==
  IF ~p.found_action_attempt
    THEN Executed(st, p, <<>>,
           ExecutionResult(<<>>, <<"No actions were attempted.">>, TRUE, TRUE, None, <<>>))
  ELSE IF p.parsing_errors # <<>> /\ p.actions = <<>>
    THEN Executed(st, p, <<>>,
           ExecutionResult(<<>>, ParseErrorResponses(p.parsing_errors), TRUE, FALSE, None, <<>>))
  ELSE execute_return(p,
         execute_actions(p.actions, 1, oc,
           Run(st, <<>>, ParseErrorResponses(p.parsing_errors),
               p.parsing_errors # <<>>, None, FALSE, <<>>)))

execute(text, st, oc) == execute_parsed(parse_response(text), st, oc)

\* the sequences of at most n elements of S
RECURSIVE SeqsUpTo(_, _)
SeqsUpTo(S, n) ==
  IF n = 0 THEN {<<>>}
  ELSE LET shorter == SeqsUpTo(S, n - 1)
       IN  shorter \cup {Append(q, x) : q \in {r \in shorter : Len(r) = n - 1}, x \in S}

\* the model texts of the model
Texts == SeqsUpTo(Segments, MaxSegments)

\* the parsed actions of text that make a remote call
RemoteCallers(text) ==
  LET acts == parse_response(text).actions
  IN  {i \in 1..Len(acts) : makes_remote_call(acts[i])}

CurStores == Stores(scratchpad, todo, agent_trajectories)

\* Conductor.execute_turn up to the return of executor.execute: the model
\* answers with text and the turn executor runs on it.
ExecuteTurn ==
  /\ tpc = "idle"
  /\ \E text \in Texts :
       \E oc \in [RemoteCallers(text) -> QueryOutcomes] :
         \E x \in {execute(text, CurStores, oc)} :
         /\ llm_output' = text
         /\ scratchpad' = x.st.scratchpad
         /\ todo' = x.st.todo
         /\ agent_trajectories' = x.st.trajectories
         /\ parsed' = x.parsed
         /\ handled' = x.handled
         /\ result' = x.result
         /\ query_outcomes' = oc
  /\ tpc' = "done"
  /\ UNCHANGED <<regvars, statevars, pmvars, routevars, sendvars, hcall, histvars, todovars, padvars, runvars, tmvars, waitvars, coordvars>>

\* The conductor takes the ExecutionResult into a Turn of the conversation
\* history and goes on to the next turn.
RecordTurn ==
  /\ tpc = "done"
  /\ tpc' = "idle"
  /\ llm_output' = <<>>
  /\ parsed' = Parsed(<<>>, <<>>, FALSE)
  /\ handled' = <<>>
  /\ result' = NoResult
  /\ query_outcomes' = <<>>
  /\ UNCHANGED <<regvars, statevars, pmvars, routevars, sendvars, hcall, histvars, todovars, padvars, runvars, tmvars, waitvars, coordvars, scratchpad, todo, agent_trajectories>>

NextTurn == ExecuteTurn \/ RecordTurn

(***************************************************************************)
(* Multi-agent coordination (saptha/core/orchestrator.py).                 *)
(*                                                                         *)
(* A text is the sequence of the pieces it is formatted from, so that one  *)
(* text containing another can be stated; concatenation is \o.             *)
(***************************************************************************)
AgentId(i) ==
  CASE i = 1 -> "a1"
    [] i = 2 -> "a2"
    [] i = 3 -> "a3"
    [] i = 4 -> "a4"
    [] OTHER -> "a5"

AgentIds == {AgentId(i) : i \in 1..MaxAgents}

ExecutionMode == {"sequential", "parallel", "collaborative"}

\* what route_task can return: the selected agents, distinct, in order
Selections ==
  {s \in SeqsUpTo(AgentIds, MaxAgents) :
     s # <<>> /\ \A i, j \in DOMAIN s : i # j => s[i] # s[j]}

\* task_request.message.content
Request == <<"request">>

\* the content agent a answers with
Reply(a) == <<"reply of " \o a>>

\* str(e) of what A2AClient.send_message raises once its attempts are spent
SendErrors(a) == {"Agent " \o a \o " timed out", "Unexpected error: Agent error: boom"}

Pending == [done |-> FALSE, ok |-> FALSE, content |-> <<>>, err |-> ""]

\* How A2AClient.send_message to agent a ends: an AgentResponse with
\* success=True, or AgentUnavailableError / A2AClientError.
SendOutcomes(a) ==
  {[done |-> TRUE, ok |-> TRUE, content |-> Reply(a), err |-> ""]}
    \cup {[done |-> TRUE, ok |-> FALSE, content |-> <<>>, err |-> e] : e \in SendErrors(a)}

Call(a, i, input, o) == [agent |-> a, index |-> i, input |-> input, outcome |-> o]

AgentResponse(a, content, success, error_message) ==
  [agent_id |-> a, content |-> content, success |-> success,
   error_message |-> error_message]

\* the AgentResponse send_message returned, and the error_response built
\* from an exception
ResponseOf(a, o) ==
  IF o.ok THEN AgentResponse(a, o.content, TRUE, None)
  ELSE AgentResponse(a, <<>>, FALSE, o.err)

\* LoadBalancedStrategy.select_agents, load tracking of the selected agents
load_selected(load, agents) ==
  [a \in DOMAIN load |->
     IF \E i \in DOMAIN agents : agents[i] = a THEN load[a] + 1 ELSE load[a]]

\* TaskRouter.agent_completed_task with the load-balanced strategy
agent_completed_task(load, a) ==
  [load EXCEPT ![a] = IF @ - 1 > 0 THEN @ - 1 ELSE 0]

\* the coordination's variables as one value
Coord(pc, step, msg, resps, rec, res, load) ==
  [pc |-> pc, step |-> step, current_message |-> msg, responses |-> resps,
   recorded |-> rec, result |-> res, load |-> load]

CurCoord ==
  Coord(cpc, cstep, current_message, responses, recorded, cresult, agent_load)

SetCoord(c) ==
  /\ cpc' = c.pc
  /\ cstep' = c.step
  /\ current_message' = c.current_message
  /\ responses' = c.responses
  /\ recorded' = c.recorded
  /\ cresult' = c.result
  /\ agent_load' = c.load

\* _execute_sequential recording a failure and going on to the next agent
sequential_response_continue(c, agents, o) ==
  Coord(IF c.step < Len(agents) THEN "loop" ELSE "returned",
        c.step + 1,
        IF c.step < Len(agents) /\ o.ok
          THEN <<"Previous agent response: ">> \o o.content
                 \o <<"\n\nOriginal request: ">> \o Request
          ELSE c.current_message,
        c.responses,
        Append(c.recorded, ResponseOf(agents[c.step], o)),
        IF c.step < Len(agents) THEN c.result ELSE o.content,
        IF o.ok THEN agent_completed_task(c.load, agents[c.step]) ELSE c.load)

\* _execute_sequential sending every agent the original message
sequential_response_same_message(c, agents, o) ==
  IF o.ok
    THEN Coord(IF c.step < Len(agents) THEN "loop" ELSE "returned",
               c.step + 1,
               c.current_message,
               c.responses,
               Append(c.recorded, ResponseOf(agents[c.step], o)),
               IF c.step < Len(agents) THEN c.result ELSE o.content,
               agent_completed_task(c.load, agents[c.step]))
    ELSE Coord("raised", c.step, c.current_message, c.responses,
               Append(c.recorded, ResponseOf(agents[c.step], o)),
               <<"Critical agent " \o agents[c.step] \o " failed: " \o o.err>>,
               c.load)

\* _execute_sequential: the body of the loop after send_message to
\* agents[c.step] ended with o, up to the next send_message, the return or
\* the raise
sequential_response(c, agents, o) ==
  IF o.ok
    THEN Coord(IF c.step < Len(agents) THEN "loop" ELSE "returned",
               c.step + 1,
               IF c.step < Len(agents)
                 THEN <<"Previous agent response: ">> \o o.content
                        \o <<"\n\nOriginal request: ">> \o Request
                 ELSE c.current_message,
               c.responses,
               Append(c.recorded, ResponseOf(agents[c.step], o)),
               IF c.step < Len(agents) THEN c.result ELSE o.content,
               agent_completed_task(c.load, agents[c.step]))
    ELSE Coord("raised", c.step, c.current_message, c.responses,
               Append(c.recorded, ResponseOf(agents[c.step], o)),
               <<"Critical agent " \o agents[c.step] \o " failed: " \o o.err>>,
               c.load)

\* "\n\n".join(f"Agent {resp.agent_id}: {resp.content}" for resp in responses)
RECURSIVE previous_work(_)
previous_work(resps) ==
  IF resps = <<>> THEN <<>>
  ELSE (IF Len(resps) > 1
          THEN previous_work(SubSeq(resps, 1, Len(resps) - 1)) \o <<"\n\n">>
          ELSE <<>>)
       \o <<"Agent " \o resps[Len(resps)].agent_id \o ": ">>
       \o resps[Len(resps)].content

\* a collaborative message carrying the last response only
collaborative_message_last_only(resps) ==
  IF resps # <<>>
    THEN <<"Original request: ">> \o Request \o <<"\n\nPrevious work:\n">>
           \o previous_work(<<resps[Len(resps)]>>)
           \o <<"\n\nPlease build upon this work and provide your contribution:">>
    ELSE Request

\* _execute_collaborative: the content of the message the next agent is sent
collaborative_message(resps) ==
  IF resps # <<>>
    THEN <<"Original request: ">> \o Request \o <<"\n\nPrevious work:\n">>
           \o previous_work(resps)
           \o <<"\n\nPlease build upon this work and provide your contribution:">>
    ELSE Request

\* _execute_collaborative: the end of the function once the loop is over
collaborative_return(c) ==
  IF c.responses = <<>>
    THEN [c EXCEPT !.pc = "raised",
                   !.result = <<"All agents failed in collaborative execution">>]
    ELSE [c EXCEPT !.pc = "returned",
                   !.result = c.responses[Len(c.responses)].content]

\* _execute_collaborative: the body of the loop after send_message to
\* agents[c.step] ended with o
collaborative_response(c, agents, o) ==
  IF o.ok
    THEN Coord("loop", c.step + 1, c.current_message,
               Append(c.responses, ResponseOf(agents[c.step], o)),
               Append(c.recorded, ResponseOf(agents[c.step], o)),
               c.result,
               agent_completed_task(c.load, agents[c.step]))
    ELSE Coord("loop", c.step + 1, c.current_message, c.responses,
               Append(c.recorded, ResponseOf(agents[c.step], o)),
               c.result, c.load)

\* _execute_collaborative from the end of one loop body to the next
\* send_message or the end of the function
collaborative_next(c, agents) ==
  IF c.step > Len(agents) THEN collaborative_return(c) ELSE c

\* DistributedOrchestrator._aggregate_responses
RECURSIVE combined_parts(_)
combined_parts(resps) ==
  IF resps = <<>> THEN <<>>
  ELSE (IF Len(resps) > 1
          THEN combined_parts(SubSeq(resps, 1, Len(resps) - 1)) \o <<"\n\n---\n\n">>
          ELSE <<>>)
       \o <<"Agent " \o resps[Len(resps)].agent_id \o " Response:\n">>
       \o resps[Len(resps)].content

_aggregate_responses(resps) ==
  IF Len(resps) = 1 THEN resps[1].content ELSE combined_parts(resps)

\* _execute_parallel: the loop over the gathered responses, from the i-th on
RECURSIVE process_responses(_, _, _)
process_responses(gathered, i, c) ==
  IF i > Len(gathered) THEN c
  ELSE process_responses(gathered, i + 1,
         IF gathered[i].outcome.ok
           THEN [c EXCEPT
                   !.recorded = Append(@, ResponseOf(gathered[i].agent, gathered[i].outcome)),
                   !.responses = Append(@, ResponseOf(gathered[i].agent, gathered[i].outcome)),
                   !.load = agent_completed_task(@, gathered[i].agent)]
           ELSE [c EXCEPT
                   !.recorded = Append(@, ResponseOf(gathered[i].agent, gathered[i].outcome))])

\* _execute_parallel: the end of the function after the loop
parallel_return(c) ==
  IF c.responses = <<>>
    THEN [c EXCEPT !.pc = "raised", !.result = <<"All agents failed in parallel execution">>]
    ELSE [c EXCEPT !.pc = "returned", !.result = _aggregate_responses(c.responses)]

\* _execute_parallel failing the task as soon as one gathered call failed
parallel_collect_any_failure(c, gathered) ==
  IF \E i \in DOMAIN gathered : ~gathered[i].outcome.ok
    THEN [process_responses(gathered, 1, c) EXCEPT
            !.pc = "raised", !.result = <<"All agents failed in parallel execution">>]
    ELSE parallel_return(process_responses(gathered, 1, c))

\* _execute_parallel once asyncio.gather has returned
parallel_collect(c, gathered) == parallel_return(process_responses(gathered, 1, c))

\* _execute_task has routed the task: route_task returned agents (the
\* load-balanced strategy counting them in) and the coordination of the
\* task's execution mode starts.
ExecuteTask ==
  /\ cpc = "idle"
  /\ \E mode \in ExecutionMode, agents \in Selections :
       /\ \A i \in DOMAIN agents : agent_load[agents[i]] < MaxLoad
       /\ cmode' = mode
       /\ cagents' = agents
       /\ agent_load' = load_selected(agent_load, agents)
  /\ cpc' = "loop"
  /\ calls' = <<>>
  /\ cstep' = 1
  /\ current_message' = Request
  /\ responses' = <<>>
  /\ recorded' = <<>>
  /\ cresult' = <<>>
  /\ UNCHANGED <<regvars, statevars, pmvars, routevars, sendvars, hcall, histvars, todovars, padvars, runvars, tmvars, waitvars, turnvars>>

\* _execute_sequential awaits client.send_message(current_message) of the
\* next agent
SequentialSend ==
  /\ cpc = "loop"
  /\ cmode = "sequential"
  /\ calls' = Append(calls, Call(cagents[cstep], cstep, current_message, Pending))
  /\ cpc' = "await"
  /\ UNCHANGED <<regvars, statevars, pmvars, routevars, sendvars, hcall, histvars, todovars, padvars, runvars, tmvars, waitvars, turnvars, cmode, cagents, cstep, current_message,
                 responses, recorded, cresult, agent_load>>

\* send_message returns or raises and _execute_sequential goes on
SequentialRespond ==
  /\ cpc = "await"
  /\ cmode = "sequential"
  /\ \E o \in SendOutcomes(cagents[cstep]) :
       /\ calls' = [calls EXCEPT ![Len(calls)].outcome = o]
       /\ SetCoord(sequential_response(CurCoord, cagents, o))
  /\ UNCHANGED <<regvars, statevars, pmvars, routevars, sendvars, hcall, histvars, todovars, padvars, runvars, tmvars, waitvars, turnvars, cmode, cagents>>

\* _execute_collaborative awaits client.send_message(collaborative_message)
\* of the next agent
CollaborativeSend ==
  /\ cpc = "loop"
  /\ cmode = "collaborative"
  /\ current_message' = collaborative_message(responses)
  /\ calls' = Append(calls, Call(cagents[cstep], cstep, collaborative_message(responses),
                                 Pending))
  /\ cpc' = "await"
  /\ UNCHANGED <<regvars, statevars, pmvars, routevars, sendvars, hcall, histvars, todovars, padvars, runvars, tmvars, waitvars, turnvars, cmode, cagents, cstep, responses, recorded,
                 cresult, agent_load>>

\* send_message returns or raises and _execute_collaborative goes on
CollaborativeRespond ==
  /\ cpc = "await"
  /\ cmode = "collaborative"
  /\ \E o \in SendOutcomes(cagents[cstep]) :
       /\ calls' = [calls EXCEPT ![Len(calls)].outcome = o]
       /\ SetCoord(collaborative_next(collaborative_response(CurCoord, cagents, o),
                                      cagents))
  /\ UNCHANGED <<regvars, statevars, pmvars, routevars, sendvars, hcall, histvars, todovars, padvars, runvars, tmvars, waitvars, turnvars, cmode, cagents>>

\* _execute_parallel creates one _execute_single_agent call per agent and
\* awaits asyncio.gather of all of them
Gather ==
  /\ cpc = "loop"
  /\ cmode = "parallel"
  /\ calls' = [i \in DOMAIN cagents |-> Call(cagents[i], i, Request, Pending)]
  /\ cpc' = "gather"
  /\ UNCHANGED <<regvars, statevars, pmvars, routevars, sendvars, hcall, histvars, todovars, padvars, runvars, tmvars, waitvars, turnvars, cmode, cagents, cstep, current_message,
                 responses, recorded, cresult, agent_load>>

\* one of the gathered send_message calls returns or raises
AgentResponds ==
  /\ cpc = "gather"
  /\ \E k \in DOMAIN calls :
       /\ ~calls[k].outcome.done
       /\ \E o \in SendOutcomes(calls[k].agent) :
            calls' = [calls EXCEPT ![k].outcome = o]
  /\ UNCHANGED <<regvars, statevars, pmvars, routevars, sendvars, hcall, histvars, todovars, padvars, runvars, tmvars, waitvars, turnvars, cpc, cmode, cagents, cstep, current_message,
                 responses, recorded, cresult, agent_load>>

\* asyncio.gather returns once every call is done, and _execute_parallel
\* processes the responses
GatherReturns ==
  /\ cpc = "gather"
  /\ \A k \in DOMAIN calls : calls[k].outcome.done
  /\ SetCoord(parallel_collect(CurCoord, calls))
  /\ UNCHANGED <<regvars, statevars, pmvars, routevars, sendvars, hcall, histvars, todovars, padvars, runvars, tmvars, waitvars, turnvars, cmode, cagents, calls>>

\* process_message takes the result or the error and is ready for the
\* next message
TaskDone ==
  /\ cpc \in {"returned", "raised"}
  /\ cpc' = "idle"
  /\ cmode' = None
  /\ cagents' = <<>>
  /\ calls' = <<>>
  /\ cstep' = 0
  /\ current_message' = <<>>
  /\ responses' = <<>>
  /\ recorded' = <<>>
  /\ cresult' = <<>>
  /\ UNCHANGED <<regvars, statevars, pmvars, routevars, sendvars, hcall, histvars, todovars, padvars, runvars, tmvars, waitvars, turnvars, agent_load>>

NextCoord ==
  \/ ExecuteTask
  \/ SequentialSend
  \/ SequentialRespond
  \/ CollaborativeSend
  \/ CollaborativeRespond
  \/ Gather
  \/ AgentResponds
  \/ GatherReturns
  \/ TaskDone

(***************************************************************************)
(* Conductor.run and run_research_stage                                    *)
(* (sapthame/orchestrator/conductor.py) and the conversation history.      *)
(***************************************************************************)
\* Turn
Turn(llm, acts, resps, traj) ==
  [llm_output |-> llm, actions_executed |-> acts, env_responses |-> resps,
   subagent_trajectories |-> traj]

\* ConversationHistory.add_turn: append to deque(maxlen=max_turns)
add_turn(turns, turn) == LastN(Append(turns, turn), HistoryMaxTurns)

\* what the model answers in a turn of the loop: prose only, a valid action,
\* a block that fails to parse, and the two finish blocks
RunTexts ==
  { <<Prose>>,
    <<Blk("update_scratchpad", <<<<"content", "a">>, <<"operation", "append">>>>)>>,
    <<Blk("update_todo", <<<<"item", "a">>, <<"operation", "complete">>>>)>>,
    <<Blk("finish_stage", <<<<"message", "m">>, <<"summary", "s">>>>)>>,
    <<Blk("finish_stage", <<<<"summary", "s">>>>)>> }

\* the dictionary run / run_research_stage returns (the fields both return)
RunReturn(completed, fin, n, reached) ==
  [completed |-> completed, finish_message |-> fin, turns_executed |-> n,
   max_turns_reached |-> reached]

NoReturn == RunReturn(FALSE, None, 0, FALSE)

\* the while test of both loops
loop_continues(done, n, budget) == ~done /\ n < budget

\* an except clause that ends the run
after_except_ends_run == "exit"

\* where the loop goes after its except clause logged the error of a turn
after_except == "test"

\* the caller starts run(instruction, max_turns) or
\* run_research_stage(client_question, max_turns)
StartRun ==
  /\ rpc \in {"idle", "returned"}
  /\ \E fn \in {"run", "run_research_stage"}, n \in 0..MaxTurns,
        lg \in {None, "turn_logger"} :
       /\ rfn' = fn
       /\ max_turns' = n
       /\ turn_logger' = lg
       /\ state_done' = IF fn = "run_research_stage" THEN FALSE ELSE state_done
  /\ rpc' = "test"
  /\ turns_executed' = 0
  /\ history_at_start' = Len(history)
  /\ turn_outcome' = None
  /\ errors_logged' = 0
  /\ run_ret' = NoReturn
  /\ UNCHANGED <<regvars, statevars, pmvars, routevars, sendvars, hcall, histvars, todovars, padvars, tmvars, waitvars, turnvars, coordvars, state_finish_message, history>>

\* while not self.state.done and turns_executed < max_turns: turns_executed += 1
LoopTest ==
  /\ rpc = "test"
  /\ IF loop_continues(state_done, turns_executed, max_turns)
       THEN /\ rpc' = "turn"
            /\ turns_executed' = turns_executed + 1
       ELSE /\ rpc' = "exit"
            /\ UNCHANGED turns_executed
  /\ UNCHANGED <<regvars, statevars, pmvars, routevars, sendvars, hcall, histvars, todovars, padvars, tmvars, waitvars, turnvars, coordvars, rfn, max_turns, turn_logger,
                 state_done, state_finish_message, history, history_at_start,
                 turn_outcome, errors_logged, run_ret>>

\* the turn raises while the prompt is built or the model is called; the
\* except clause logs it
TurnRaises ==
  /\ rpc = "turn"
  /\ rpc' = after_except
  /\ turn_outcome' = "raised"
  /\ errors_logged' = errors_logged + 1
  /\ UNCHANGED <<regvars, statevars, pmvars, routevars, sendvars, hcall, histvars, todovars, padvars, tmvars, waitvars, turnvars, coordvars, rfn, max_turns, turn_logger,
                 turns_executed, state_done, state_finish_message, history,
                 history_at_start, run_ret>>

\* the rest of the turn once executor.execute returned x for the model's text:
\* the Turn is added to the history, the turn is logged (run calls
\* self.turn_logger.log_turn whether or not a logger is attached), and a
\* finished result sets State.done and breaks
TurnExecuted(text, x) ==
  /\ scratchpad' = x.st.scratchpad
  /\ todo' = x.st.todo
  /\ agent_trajectories' = x.st.trajectories
  /\ history' = add_turn(history, Turn(text, x.result.actions_executed,
                                       x.result.env_responses,
                                       x.result.agent_trajectories))
  /\ IF rfn = "run" /\ turn_logger = None
       THEN /\ rpc' = after_except
            /\ turn_outcome' = "raised"
            /\ errors_logged' = errors_logged + 1
            /\ UNCHANGED <<regvars, statevars, pmvars, routevars, sendvars, hcall, histvars, todovars, state_done, state_finish_message>>
       ELSE /\ turn_outcome' = "ok"
            /\ UNCHANGED errors_logged
            /\ IF x.result.done
                 THEN /\ state_done' = TRUE
                      /\ state_finish_message' = x.result.finish_message
                      /\ rpc' = "exit"
                 ELSE /\ rpc' = "test"
                      /\ UNCHANGED <<regvars, statevars, pmvars, routevars, sendvars, hcall, histvars, todovars, state_done, state_finish_message>>

\* the model answers and the turn executor runs on the answer
TurnExecutes ==
  /\ rpc = "turn"
  /\ \E text \in RunTexts :
       \E x \in {execute(text, CurStores, <<>>)} : TurnExecuted(text, x)
  /\ UNCHANGED <<regvars, statevars, pmvars, routevars, sendvars, hcall, histvars, todovars, padvars, tmvars, waitvars, coordvars, tpc, llm_output, parsed, handled, result, query_outcomes,
                 rfn, max_turns, turn_logger, turns_executed, history_at_start, run_ret>>

\* the return statement after the loop
RunReturns ==
  /\ rpc = "exit"
  /\ rpc' = "returned"
  /\ run_ret' = RunReturn(state_done, state_finish_message, turns_executed,
                          turns_executed >= max_turns)
  /\ UNCHANGED <<regvars, statevars, pmvars, routevars, sendvars, hcall, histvars, todovars, padvars, tmvars, waitvars, turnvars, coordvars, rfn, max_turns, turn_logger,
                 turns_executed, state_done, state_finish_message, history,
                 history_at_start, turn_outcome, errors_logged>>

NextRun == StartRun \/ LoopTest \/ TurnRaises \/ TurnExecutes \/ RunReturns

(***************************************************************************)
(* The scratchpad under direct calls of its operations                     *)
(* (sapthame/orchestrator/state_managers/scratchpad.py).                   *)
(***************************************************************************)
\* the texts a caller passes to append and replace
PadTexts == {"a", "b", "c", " a ", " ", ""}

\* the indexes a caller passes to remove_item
PadIndexes == -1..ScratchpadMaxItems

Appended(valid, entries) == [valid |-> valid, entries |-> entries]

\* the record after append(text): a blank text is no entry, and the record
\* is kept for at most max_items + MaxExtra entries
note_append(rec, text) ==
  IF IsBlank(text) THEN rec
  ELSE IF rec.valid /\ Len(rec.entries) < ScratchpadMaxItems + MaxExtra
    THEN Appended(TRUE, Append(rec.entries, Strip(text)))
  ELSE Appended(FALSE, <<>>)

\* scratchpad_manager.append(text)
PadAppend ==
  /\ \E text \in PadTexts :
       /\ scratchpad' = scratchpad_append(scratchpad, text)
       /\ pad_appended' = note_append(pad_appended, text)
  /\ UNCHANGED <<regvars, statevars, pmvars, routevars, sendvars, hcall, histvars, todovars, tmvars, waitvars, coordvars, runvars, tpc, llm_output, todo,
                 agent_trajectories, parsed, handled, result,
                 query_outcomes>>

\* scratchpad_manager.replace(text)
PadReplace ==
  /\ \E text \in PadTexts :
       /\ scratchpad' = scratchpad_replace(scratchpad, text)
       /\ pad_appended' = Appended(scratchpad' = <<>>, <<>>)
  /\ UNCHANGED <<regvars, statevars, pmvars, routevars, sendvars, hcall, histvars, todovars, tmvars, waitvars, coordvars, runvars, tpc, llm_output, todo,
                 agent_trajectories, parsed, handled, result,
                 query_outcomes>>

\* scratchpad_manager.clear()
PadClear ==
  /\ scratchpad' = scratchpad_clear(scratchpad)
  /\ pad_appended' = Appended(TRUE, <<>>)
  /\ UNCHANGED <<regvars, statevars, pmvars, routevars, sendvars, hcall, histvars, todovars, tmvars, waitvars, coordvars, runvars, tpc, llm_output, todo,
                 agent_trajectories, parsed, handled, result,
                 query_outcomes>>

\* scratchpad_manager.remove_item(index)
PadRemove ==
  /\ \E index \in PadIndexes :
       /\ scratchpad' = scratchpad_remove_item(scratchpad, index).content
       /\ pad_appended' =
            IF scratchpad_remove_item(scratchpad, index).ret
              THEN Appended(scratchpad' = <<>>, <<>>)
              ELSE pad_appended
  /\ UNCHANGED <<regvars, statevars, pmvars, routevars, sendvars, hcall, histvars, todovars, tmvars, waitvars, coordvars, runvars, tpc, llm_output, todo,
                 agent_trajectories, parsed, handled, result,
                 query_outcomes>>

NextPad == PadAppend \/ PadReplace \/ PadClear \/ PadRemove

(***************************************************************************)
(* The todo list under direct calls of its operations                      *)
(* (sapthame/orchestrator/state_managers/todo.py).                         *)
(***************************************************************************)
\* the texts a caller passes to add_item
TodoTexts == {"a", "b", "c", " a ", " ", ""}

\* the indexes a caller passes to complete_item, uncomplete_item, remove_item
TodoIndexes == -1..TodoMaxItems

\* todo_manager.add_item(item)
TodoAdd ==
  /\ \E item \in TodoTexts :
       /\ todo' = add_item(todo, item).items
       /\ todo_op' = <<"add_item", item, todo>>
  /\ UNCHANGED <<regvars, statevars, pmvars, routevars, sendvars, hcall, histvars, tmvars, waitvars, coordvars, runvars, padvars, tpc, llm_output,
                 scratchpad, agent_trajectories, parsed, handled, result,
                 query_outcomes>>

\* todo_manager.complete_item(index)
TodoComplete ==
  /\ \E index \in TodoIndexes :
       /\ todo' = complete_item(todo, index).items
       /\ todo_op' = <<"complete_item", index, todo>>
  /\ UNCHANGED <<regvars, statevars, pmvars, routevars, sendvars, hcall, histvars, tmvars, waitvars, coordvars, runvars, padvars, tpc, llm_output,
                 scratchpad, agent_trajectories, parsed, handled, result,
                 query_outcomes>>

\* todo_manager.uncomplete_item(index)
TodoUncomplete ==
  /\ \E index \in TodoIndexes :
       /\ todo' = uncomplete_item(todo, index).items
       /\ todo_op' = <<"uncomplete_item", index, todo>>
  /\ UNCHANGED <<regvars, statevars, pmvars, routevars, sendvars, hcall, histvars, tmvars, waitvars, coordvars, runvars, padvars, tpc, llm_output,
                 scratchpad, agent_trajectories, parsed, handled, result,
                 query_outcomes>>

\* todo_manager.remove_item(index)
TodoRemove ==
  /\ \E index \in TodoIndexes :
       /\ todo' = remove_item(todo, index).items
       /\ todo_op' = <<"remove_item", index, todo>>
  /\ UNCHANGED <<regvars, statevars, pmvars, routevars, sendvars, hcall, histvars, tmvars, waitvars, coordvars, runvars, padvars, tpc, llm_output,
                 scratchpad, agent_trajectories, parsed, handled, result,
                 query_outcomes>>

NextTodo == TodoAdd \/ TodoComplete \/ TodoUncomplete \/ TodoRemove

(***************************************************************************)
(* The conversation history under direct calls of its operations           *)
(* (sapthame/orchestrator/state_managers/conversation_history.py).         *)
(***************************************************************************)
\* a prompt text: "No previous interactions." (none), or the "--- Turn i ---"
\* sections joined in order
Rendering(none, sections) == [none |-> none, sections |-> sections]

\* the rendering to_prompt builds from turns_to_include
render(turns) ==
  IF turns = <<>> THEN Rendering(FALSE, <<>>)
  ELSE Rendering(FALSE, [i \in 1..Len(turns) |-> [index |-> i, turn |-> turns[i]]])

\* the history object: its deque and its cache
History(turns, cached) == [turns |-> turns, cached |-> cached]

\* add_turn that leaves the cache as it is
history_add_turn_keeps_cache(h, turn) == History(add_turn(h.turns, turn), h.cached)

\* ConversationHistory.add_turn with its cache invalidation
history_add_turn(h, turn) == History(add_turn(h.turns, turn), <<>>)

\* turns_to_include of to_prompt: limit is <<>> for None, else <<n>>;
\* list[-n:] is the whole list for n = 0
turns_to_include(turns, limit) ==
  IF limit # <<>> /\ Len(turns) > limit[1]
    THEN IF limit[1] = 0 THEN turns ELSE LastN(turns, limit[1])
    ELSE turns

\* ConversationHistory.to_prompt: the history afterwards and the text returned
to_prompt(h, limit) ==
  IF h.turns = <<>> THEN [h |-> h, ret |-> Rendering(TRUE, <<>>)]
  ELSE IF limit = <<>> /\ h.cached # <<>> THEN [h |-> h, ret |-> h.cached[1]]
  ELSE [h |-> IF limit = <<>>
                THEN History(h.turns, <<render(turns_to_include(h.turns, limit))>>)
                ELSE h,
        ret |-> render(turns_to_include(h.turns, limit))]

\* ConversationHistory.clear
history_clear(h) == History(<<>>, <<>>)

\* the turns a caller adds
HistTurns == {Turn(text, <<>>, <<>>, <<>>) : text \in RunTexts}

\* the max_recent_turns a caller passes
HistLimits == {<<>>} \cup {<<n>> : n \in 0..HistoryMaxTurns}

CurHistory == History(history, cached_prompt)

\* conversation_history.add_turn(turn)
HistAddTurn ==
  /\ \E turn \in HistTurns :
       /\ history' = history_add_turn(CurHistory, turn).turns
       /\ cached_prompt' = history_add_turn(CurHistory, turn).cached
       /\ hist_op' = <<"add_turn", <<turn>>, history, cached_prompt>>
  /\ UNCHANGED <<regvars, statevars, pmvars, routevars, sendvars, hcall, tmvars, waitvars, turnvars, coordvars, padvars, todovars, prompt_ret,
                 rpc, rfn, max_turns, turn_logger, turns_executed, state_done,
                 state_finish_message, history_at_start, turn_outcome, errors_logged,
                 run_ret>>

\* conversation_history.to_prompt(max_recent_turns)
HistToPrompt ==
  /\ \E limit \in HistLimits :
       /\ history' = to_prompt(CurHistory, limit).h.turns
       /\ cached_prompt' = to_prompt(CurHistory, limit).h.cached
       /\ prompt_ret' = to_prompt(CurHistory, limit).ret
       /\ hist_op' = <<"to_prompt", limit, history, cached_prompt>>
  /\ UNCHANGED <<regvars, statevars, pmvars, routevars, sendvars, hcall, tmvars, waitvars, turnvars, coordvars, padvars, todovars,
                 rpc, rfn, max_turns, turn_logger, turns_executed, state_done,
                 state_finish_message, history_at_start, turn_outcome, errors_logged,
                 run_ret>>

\* conversation_history.clear()
HistClear ==
  /\ history' = history_clear(CurHistory).turns
  /\ cached_prompt' = history_clear(CurHistory).cached
  /\ hist_op' = <<"clear", <<>>, history, cached_prompt>>
  /\ UNCHANGED <<regvars, statevars, pmvars, routevars, sendvars, hcall, tmvars, waitvars, turnvars, coordvars, padvars, todovars, prompt_ret,
                 rpc, rfn, max_turns, turn_logger, turns_executed, state_done,
                 state_finish_message, history_at_start, turn_outcome, errors_logged,
                 run_ret>>

NextHistory == HistAddTurn \/ HistToPrompt \/ HistClear

(***************************************************************************)
(* ActionHandler.handle_action under failures of its collaborators         *)
(* (sapthame/orchestrator/actions/handler.py).                             *)
(***************************************************************************)
\* the actions the parser builds from the model's blocks, and an object that
\* is none of the four action classes
HandlerActions ==
  {_parse_action(b).v[1] :
     b \in {s \in Segments : IsBlock(s) /\ _parse_action(s).ok /\ _parse_action(s).v # <<>>}}
  \cup {[type |-> "unknown"]}

\* what goes wrong while the action is handled: nothing, send_and_wait
\* raises TimeoutError, the JSON-RPC call raises, the remote task ends
\* failed, or the scratchpad / todo manager raises
CollaboratorFailures == {"none", "TimeoutError", "rpc error", "task failed", "store write"}

\* how send_and_wait ends under the failure
QueryOutcomeOf(failure) ==
  CASE failure \in {"TimeoutError", "rpc error"} -> "raised"
    [] failure = "task failed" -> "failed"
    [] OTHER -> "completed"

\* the handler calls a method of the scratchpad or todo manager for the action
writes_store(action) ==
  \/ /\ action.type = "update_scratchpad"
     /\ action.operation \in {"append", "replace", "clear"}
  \/ /\ action.type = "update_todo"
     /\ \/ action.operation = "add"
        \/ action.operation \in {"complete", "remove"} /\ action.index # <<>>

\* the failure strikes while this action is handled
Strikes(failure, action) ==
  \/ failure \in {"TimeoutError", "rpc error", "task failed"} /\ makes_remote_call(action)
  \/ failure = "store write" /\ writes_store(action)

\* how a call of handle_action ends: it returns the pair (out, is_error), or
\* an exception leaves it
HandlerCall(raised, h) == [raised |-> raised, h |-> h]

\* handle_action without its try / except
handle_action_unguarded(st, action, failure, tid) ==
  IF failure = "store write" /\ writes_store(action)
    THEN HandlerCall(TRUE, Handled(st, "store write failed", TRUE))
    ELSE HandlerCall(FALSE, handle_action(st, action, QueryOutcomeOf(failure), tid))

\* ActionHandler.handle_action with its except clause: an exception of a
\* store manager becomes ("Error executing action: ...", True); those of the
\* remote call are caught in _handle_query_agent
handle_action_call(st, action, failure, tid) ==
  IF failure = "store write" /\ writes_store(action)
    THEN HandlerCall(FALSE, Handled(st, "Error executing action: store write failed", TRUE))
    ELSE HandlerCall(FALSE, handle_action(st, action, QueryOutcomeOf(failure), tid))

NoCall == [action |-> [type |-> None], failure |-> "none", raised |-> FALSE,
           out |-> "", is_error |-> FALSE]

\* the rest of HandleAction once handle_action ended as c
Handles(action, failure, c) ==
  /\ scratchpad' = c.h.st.scratchpad
  /\ todo' = c.h.st.todo
  /\ agent_trajectories' = c.h.st.trajectories
  /\ hcall' = [action |-> action, failure |-> failure, raised |-> c.raised,
               out |-> c.h.out, is_error |-> c.h.is_error]

\* action_handler.handle_action(action)
HandleAction ==
  /\ \E action \in HandlerActions, failure \in CollaboratorFailures :
       \E c \in {handle_action_call(CurStores, action, failure, "task1")} :
         Handles(action, failure, c)
  /\ UNCHANGED <<regvars, statevars, pmvars, routevars, sendvars, tmvars, waitvars, coordvars, runvars, padvars, todovars, histvars,
                 tpc, llm_output, parsed, handled, result, query_outcomes>>

NextHandle == HandleAction

(***************************************************************************)
(* A remote-agent call: A2AClient.send_message with its tenacity retry     *)
(* (saptha/protocol/a2a_client.py) and BinduClient._send_jsonrpc_request   *)
(* (sapthame/protocol/bindu_client.py).                                    *)
(***************************************************************************)
Clients == {"A2AClient", "BinduClient"}

\* how one HTTP request ends
TransportFailures == {"connection refused", "timeout", "5xx"}
BadResponses == {"4xx", "malformed", "error envelope", "empty result"}
RequestOutcomes == {"ok"} \cup TransportFailures \cup BadResponses

\* @retry(stop=stop_after_attempt(3))
StopAfterAttempt == 3

\* how one run of the function body ends: it returns, or raises the exception
SendResult(kind, exc) == [kind |-> kind, exc |-> exc]

NoSendResult == SendResult(None, None)

\* the body of A2AClient.send_message for one request.  The two httpx
\* exceptions have except clauses of their own; every other exception,
\* those raised inside the try for a 5xx or 4xx status included, is caught
\* by "except Exception" and raised again as A2AClientError
a2a_attempt(outcome) ==
  CASE outcome = "ok" -> SendResult("returned", None)
    [] outcome \in {"connection refused", "timeout"} ->
         SendResult("raised", "AgentUnavailableError")
    [] OTHER -> SendResult("raised", "A2AClientError")

\* the body of BinduClient._send_jsonrpc_request for one request: requests
\* raises for a connection error or a timeout, raise_for_status for 4xx and
\* 5xx, response.json() for a body that is no JSON; an error envelope (and
\* one without result) is logged and returned
bindu_attempt(outcome) ==
  CASE outcome = "ok" -> SendResult("returned", None)
    [] outcome \in {"error envelope", "empty result"} -> SendResult("returned error", None)
    [] outcome \in {"connection refused", "timeout"} ->
         SendResult("raised", "RequestException")
    [] outcome \in {"5xx", "4xx"} -> SendResult("raised", "HTTPError")
    [] OTHER -> SendResult("raised", "JSONDecodeError")

attempt(client, outcome) ==
  IF client = "A2AClient" THEN a2a_attempt(outcome) ELSE bindu_attempt(outcome)

\* the attempt that raised is followed by another one: tenacity retries
\* send_message on every exception until stop_after_attempt(3);
\* _send_jsonrpc_request has no retry
retries(client, made) == client = "A2AClient" /\ made < StopAfterAttempt

\* a caller starts a remote-agent call
StartSend ==
  /\ spc \in {"idle", "returned", "raised"}
  /\ \E client \in Clients : sclient' = client
  /\ spc' = "attempt"
  /\ sent' = <<>>
  /\ backoffs' = 0
  /\ send_ret' = NoSendResult
  /\ UNCHANGED <<regvars, statevars, pmvars, routevars, tmvars, waitvars, turnvars, coordvars, runvars, padvars, todovars,
                 histvars, hcall>>

\* the rest of Attempt once the body ended as r after the request
Attempted(outcome, r) ==
  /\ sent' = Append(sent, outcome)
  /\ IF r.kind = "raised" /\ retries(sclient, Len(sent) + 1)
       THEN /\ spc' = "backoff"
            /\ UNCHANGED send_ret
       ELSE /\ spc' = IF r.kind = "raised" THEN "raised" ELSE "returned"
            /\ send_ret' = r

\* one run of the function body: the request is sent and answered
Attempt ==
  /\ spc = "attempt"
  /\ \E outcome \in RequestOutcomes :
       \E r \in {attempt(sclient, outcome)} : Attempted(outcome, r)
  /\ UNCHANGED <<regvars, statevars, pmvars, routevars, tmvars, waitvars, turnvars, coordvars, runvars, padvars, todovars,
                 histvars, hcall, sclient, backoffs>>

\* wait_exponential(multiplier=1, min=1, max=10) between two attempts
Backoff ==
  /\ spc = "backoff"
  /\ spc' = "attempt"
  /\ backoffs' = backoffs + 1
  /\ UNCHANGED <<regvars, statevars, pmvars, routevars, tmvars, waitvars, turnvars, coordvars, runvars, padvars, todovars,
                 histvars, hcall, sclient, sent, send_ret>>

NextSend == StartSend \/ Attempt \/ Backoff

(***************************************************************************)
(* Agent selection (saptha/routing/router.py).                             *)
(***************************************************************************)
\* AgentCapability values the descriptors and requests are drawn from
Capabilities == {"web_search", "knowledge_base"}

\* AgentInfo.capabilities of the registered agents
CapabilitiesOf(a) ==
  CASE a = "a1" -> {"web_search"}
    [] a = "a2" -> {"web_search", "knowledge_base"}
    [] a = "a3" -> {"knowledge_base"}
    [] a = "a4" -> {"web_search"}
    [] OTHER -> {}

\* the fields of a TaskRequest the strategies read; max_agents 0 is None
TaskRequest(caps, mode, max_agents) ==
  [required_capabilities |-> caps, execution_mode |-> mode, max_agents |-> max_agents]

\* seq[:n]
Take(seq, n) == SubSeq(seq, 1, IF n < Len(seq) THEN n ELSE Len(seq))

\* the loop of CapabilityBasedStrategy.select_agents over available_agents
\* from index i on: an agent sharing a capability with the request is
\* appended, and the loop breaks once max_agents agents are selected
RECURSIVE capable_loop(_, _, _, _)
capable_loop(request, available, i, selected) ==
  IF i > Len(available) THEN selected
  ELSE IF request.required_capabilities \cap CapabilitiesOf(available[i]) # {}
    THEN IF request.max_agents # 0 /\ Len(selected) + 1 >= request.max_agents
           THEN Append(selected, available[i])
           ELSE capable_loop(request, available, i + 1, Append(selected, available[i]))
    ELSE capable_loop(request, available, i + 1, selected)

\* CapabilityBasedStrategy.select_agents
capability_select_agents(request, available) ==
  IF request.required_capabilities = {}
    THEN IF request.execution_mode = "parallel"
           THEN Take(available, IF request.max_agents # 0 THEN request.max_agents ELSE 3)
           ELSE Take(available, 1)
    ELSE capable_loop(request, available, 1, <<>>)

\* list.sort(key=load): ascending and stable, the agents of equal load keep
\* their order
RECURSIVE sort_by_load(_, _, _, _)
sort_by_load(agents, load, k, top) ==
  IF k > top THEN <<>>
  ELSE SelectSeq(agents, LAMBDA a : load[a] = k) \o sort_by_load(agents, load, k + 1, top)

\* max_agents = task_request.max_agents or (3 if PARALLEL else 1)
effective_max_agents(request) ==
  IF request.max_agents # 0 THEN request.max_agents
  ELSE IF request.execution_mode = "parallel" THEN 3 ELSE 1

\* LoadBalancedStrategy.select_agents, the list it returns
select_agents(request, available, load) ==
  Take(sort_by_load(capability_select_agents(request, available), load, 0, MaxLoad + 1),
       effective_max_agents(request))

\* get_available_agents(): the rows of the agents that are available, in
\* the order of registration
Available ==
  {s \in SeqsUpTo(AgentIds, MaxAgents) :
     /\ s # <<>>
     /\ \A i, j \in DOMAIN s :
          i < j => \E m, n \in 1..MaxAgents : m < n /\ s[i] = AgentId(m) /\ s[j] = AgentId(n)}

NoRoute == [op |-> None]

\* the rest of SelectAgents once select_agents chose selected
Selected(request, available, selected) ==
  /\ \A i \in DOMAIN selected : agent_load[selected[i]] <= MaxLoad
  /\ agent_load' = load_selected(agent_load, selected)
  /\ route_op' = [op |-> "select_agents", request |-> request, available |-> available,
                  load |-> agent_load, selected |-> selected]

\* a caller asks the load-balanced strategy for the agents of a request
SelectAgents ==
  /\ \E caps \in SUBSET Capabilities, mode \in ExecutionMode, max_agents \in 0..MaxAgents - 1,
        available \in Available :
       \E selected \in {select_agents(TaskRequest(caps, mode, max_agents), available,
                                      agent_load)} :
         Selected(TaskRequest(caps, mode, max_agents), available, selected)
  /\ UNCHANGED <<regvars, statevars, pmvars, tmvars, waitvars, turnvars, runvars, padvars, todovars, histvars, hcall,
                 sendvars, cpc, cmode, cagents, calls, cstep, current_message, responses,
                 recorded, cresult>>

\* a caller signals that agent a completed a task
AgentCompleted ==
  /\ \E a \in AgentIds :
       /\ agent_load' = agent_completed_task(agent_load, a)
       /\ route_op' = [op |-> "agent_completed_task", agent |-> a, load |-> agent_load]
  /\ UNCHANGED <<regvars, statevars, pmvars, tmvars, waitvars, turnvars, runvars, padvars, todovars, histvars, hcall,
                 sendvars, cpc, cmode, cagents, calls, cstep, current_message, responses,
                 recorded, cresult>>

NextRouter == SelectAgents \/ AgentCompleted

(***************************************************************************)
(* DistributedOrchestrator.process_message and _execute_task               *)
(* (saptha/core/orchestrator.py) with the task row of the context manager  *)
(* (saptha/context/manager.py).                                            *)
(***************************************************************************)
\* TaskStatus
TaskStatus == {"pending", "routing", "executing", "completed", "failed", "cancelled"}

\* an except clause that leaves the status alone and re-raises e
process_message_except_reraises(status, e) == [task_status |-> status, raised |-> e]

\* the except clause of process_message: the task is marked FAILED and the
\* exception e is wrapped in a TaskExecutionError
process_message_except(status, e) ==
  [task_status |-> "failed", raised |-> "TaskExecutionError"]

\* process_message is called: the TaskRequest is built and create_task
\* inserts its row
ProcessMessage ==
  /\ pmpc \in {"idle", "returned", "raised"}
  /\ cpc = "idle"
  /\ pmpc' = "created"
  /\ task_status' = "pending"
  /\ status_log' = <<"pending">>
  /\ pm_error' = None
  /\ load_before' = agent_load
  /\ UNCHANGED <<regvars, statevars, tmvars, waitvars, turnvars, coordvars, runvars, padvars, todovars,
                 histvars, hcall, sendvars, routevars>>

\* _execute_task marks the task ROUTING and reads the available agents
UpdateRouting ==
  /\ pmpc = "created"
  /\ pmpc' = "routing"
  /\ task_status' = "routing"
  /\ status_log' = Append(status_log, "routing")
  /\ UNCHANGED <<regvars, statevars, tmvars, waitvars, turnvars, coordvars, runvars, padvars, todovars,
                 histvars, hcall, sendvars, routevars, pm_error, load_before>>

\* get_available_agents returned no agent (NoAgentsAvailableError), or
\* route_task found none suitable (ValueError)
RoutingFails ==
  /\ pmpc = "routing"
  /\ cpc = "idle"
  /\ pmpc' = "except"
  /\ \E e \in {"NoAgentsAvailableError", "ValueError"} : pm_error' = e
  /\ UNCHANGED <<regvars, statevars, tmvars, waitvars, turnvars, coordvars, runvars, padvars, todovars,
                 histvars, hcall, sendvars, routevars, task_status, status_log, load_before>>

\* route_task returned the selected agents
RouteTask ==
  /\ pmpc = "routing"
  /\ ExecuteTask

\* _execute_task marks the task EXECUTING and enters the coordination of
\* the request's execution mode
UpdateExecuting ==
  /\ pmpc = "routing"
  /\ cpc = "loop"
  /\ pmpc' = "executing"
  /\ task_status' = "executing"
  /\ status_log' = Append(status_log, "executing")
  /\ UNCHANGED <<regvars, statevars, tmvars, waitvars, turnvars, coordvars, runvars, padvars, todovars,
                 histvars, hcall, sendvars, routevars, pm_error, load_before>>

\* a step of _execute_sequential, _execute_parallel or
\* _execute_collaborative
Coordinate ==
  /\ pmpc = "executing"
  /\ \/ SequentialSend
     \/ SequentialRespond
     \/ CollaborativeSend
     \/ CollaborativeRespond
     \/ Gather
     \/ AgentResponds
     \/ GatherReturns

\* _execute_task returned the final response: complete_task, get_task, and
\* process_message returns the completed task
CompleteTask ==
  /\ pmpc = "executing"
  /\ cpc = "returned"
  /\ pmpc' = "returned"
  /\ task_status' = "completed"
  /\ status_log' = Append(status_log, "completed")
  /\ UNCHANGED <<regvars, statevars, tmvars, waitvars, turnvars, coordvars, runvars, padvars, todovars,
                 histvars, hcall, sendvars, routevars, pm_error, load_before>>

\* the rest of FailTask once the except clause ended as r
Excepted(r) ==
  /\ task_status' = r.task_status
  /\ status_log' = Append(status_log, r.task_status)
  /\ pm_error' = r.raised

\* an exception left the try block of process_message
FailTask ==
  /\ \/ pmpc = "except"
     \/ pmpc = "executing" /\ cpc = "raised"
  /\ pmpc' = "raised"
  /\ Excepted(process_message_except(task_status,
                                     IF pmpc = "except" THEN pm_error
                                     ELSE "TaskExecutionError"))
  /\ UNCHANGED <<regvars, statevars, tmvars, waitvars, turnvars, coordvars, runvars, padvars, todovars,
                 histvars, hcall, sendvars, routevars, load_before>>

\* the caller has the result or the error of a task that was coordinated
ProcessDone ==
  /\ pmpc \in {"returned", "raised"}
  /\ TaskDone

NextProcess ==
  \/ ProcessMessage
  \/ UpdateRouting
  \/ RoutingFails
  \/ RouteTask
  \/ UpdateExecuting
  \/ Coordinate
  \/ CompleteTask
  \/ FailTask
  \/ ProcessDone

(***************************************************************************)
(* The orchestration State (sapthame/orchestrator/state_managers/state.py) *)
(* and the places of the Conductor that write it                           *)
(* (sapthame/orchestrator/conductor.py).                                   *)
(***************************************************************************)
Phase == {"research", "planning", "implementation"}

\* the outputs and finish messages a caller passes
Outputs == {"out"}

\* what to_dict builds from the fields
StateDict(s) ==
  [current_phase |-> s.current_phase, research_output |-> s.research_output,
   plan_output |-> s.plan_output, done |-> s.done, finish_message |-> s.finish_message]

\* State as constructed; _cached_dict is <<>> for None, else <<dict>>
NewState ==
  [current_phase |-> "research", research_output |-> None, plan_output |-> None,
   done |-> FALSE, finish_message |-> None, _cached_dict |-> <<>>]

_invalidate_cache(s) == [s EXCEPT !._cached_dict = <<>>]

set_phase(s, phase) ==
  IF phase # s.current_phase
    THEN _invalidate_cache([s EXCEPT !.current_phase = phase])
    ELSE s

set_research_output(s, output) == _invalidate_cache([s EXCEPT !.research_output = output])

set_plan_output(s, output) == _invalidate_cache([s EXCEPT !.plan_output = output])

mark_done(s, message) ==
  _invalidate_cache([s EXCEPT !.done = TRUE, !.finish_message = message])

state_reset(s) == _invalidate_cache([NewState EXCEPT !._cached_dict = s._cached_dict])

\* State.to_dict: the state afterwards and the returned dictionary
state_to_dict(s) ==
  IF s._cached_dict # <<>>
    THEN [state |-> s, ret |-> s._cached_dict[1]]
    ELSE [state |-> [s EXCEPT !._cached_dict = <<StateDict(s)>>], ret |-> StateDict(s)]

\* Conductor.execute_turn from the state snapshot on: to_dict is called for
\* the turn data, log_turn raises when no turn logger is attached, and a
\* result with done=True is written to the fields
execute_turn_state(s, logger, done, message) ==
  IF logger /\ done
    THEN [state_to_dict(s).state EXCEPT !.done = TRUE, !.finish_message = message]
    ELSE state_to_dict(s).state

\* run_research_stage before its loop
research_stage_start(s) == [s EXCEPT !.current_phase = "research", !.done = FALSE]

\* run_research_stage after the turn whose result has done=True
research_stage_done(s, message) ==
  [s EXCEPT !.done = TRUE, !.finish_message = message, !.research_output = message]

\* a caller uses one of the State setters
StateSetter ==
  /\ \E s \in {set_phase(ostate, p) : p \in Phase}
            \cup {set_research_output(ostate, o) : o \in Outputs}
            \cup {set_plan_output(ostate, o) : o \in Outputs}
            \cup {mark_done(ostate, o) : o \in Outputs}
            \cup {state_reset(ostate)} : ostate' = s
  /\ state_op' = "setter"
  /\ dict_ret' = <<>>
  /\ UNCHANGED <<regvars, tmvars, waitvars, turnvars, coordvars, runvars, padvars, todovars,
                 histvars, hcall, sendvars, routevars, pmvars>>

\* a caller asks for the dictionary
StateToDict ==
  /\ ostate' = state_to_dict(ostate).state
  /\ state_op' = "to_dict"
  /\ dict_ret' = <<state_to_dict(ostate).ret>>
  /\ UNCHANGED <<regvars, tmvars, waitvars, turnvars, coordvars, runvars, padvars, todovars,
                 histvars, hcall, sendvars, routevars, pmvars>>

\* a turn of Conductor.run
StateTurn ==
  /\ ~ostate.done
  /\ \E logger \in BOOLEAN, done \in BOOLEAN, message \in Outputs :
       ostate' = execute_turn_state(ostate, logger, done, message)
  /\ state_op' = "execute_turn"
  /\ dict_ret' = <<>>
  /\ UNCHANGED <<regvars, tmvars, waitvars, turnvars, coordvars, runvars, padvars, todovars,
                 histvars, hcall, sendvars, routevars, pmvars>>

\* run_research_stage starts
ResearchStageStart ==
  /\ ostate' = research_stage_start(ostate)
  /\ state_op' = "research_stage_start"
  /\ dict_ret' = <<>>
  /\ UNCHANGED <<regvars, tmvars, waitvars, turnvars, coordvars, runvars, padvars, todovars,
                 histvars, hcall, sendvars, routevars, pmvars>>

\* the turn of run_research_stage that finishes the stage
ResearchStageDone ==
  /\ state_op \in {"research_stage_start"}
  /\ \E message \in Outputs : ostate' = research_stage_done(ostate, message)
  /\ state_op' = "research_stage_done"
  /\ dict_ret' = <<>>
  /\ UNCHANGED <<regvars, tmvars, waitvars, turnvars, coordvars, runvars, padvars, todovars,
                 histvars, hcall, sendvars, routevars, pmvars>>

NextState ==
  StateSetter \/ StateToDict \/ StateTurn \/ ResearchStageStart \/ ResearchStageDone

(***************************************************************************)
(* Agent registry (sapthame/discovery/agent_registry.py).                  *)
(***************************************************************************)
\* the agent ids and skill names the descriptors are drawn from
DiscoverableAgents == {"a1", "a2"}

SkillNames == {"s1", "s2"}

\* AgentInfo: the id and the names of the skills it lists, in order
AgentInfo(id, skills) == [id |-> id, skills |-> skills]

AgentInfos ==
  {AgentInfo(a, s) : a \in DiscoverableAgents,
                     s \in {<<>>, <<"s1">>, <<"s2">>, <<"s1", "s2">>}}

\* AgentRegistry.__init__
NewRegistry == [agents |-> <<>>, skill_index |-> [s \in SkillNames |-> <<>>]]

\* the loop of add_agent over agent_info.skills from the i-th on
RECURSIVE index_skills(_, _, _)
index_skills(index, info, i) ==
  IF i > Len(info.skills) THEN index
  ELSE index_skills([index EXCEPT ![info.skills[i]] = Append(@, info.id)], info, i + 1)

\* AgentRegistry.add_agent
add_agent(reg, info) ==
  [agents |-> Put(reg.agents, info.id, info),
   skill_index |-> index_skills(reg.skill_index, info, 1)]

\* AgentRegistry.discover_agents over the answers of the URLs, in order: a
\* fetch that fails is logged and the loop goes on
RECURSIVE discover_agents(_, _)
discover_agents(reg, fetched) ==
  IF fetched = <<>> THEN reg
  ELSE discover_agents(IF Head(fetched).failed THEN reg
                       ELSE add_agent(reg, Head(fetched).info),
                       Tail(fetched))

\* AgentRegistry.get_agents_by_skill: the ids of the agents returned
get_agents_by_skill(reg, name) ==
  SelectSeq(reg.skill_index[name], LAMBDA aid : aid \in DOMAIN reg.agents)

\* how the fetch of one URL ends
Fetched(failed, info) == [failed |-> failed, info |-> info]

Fetches == {Fetched(TRUE, AgentInfo(None, <<>>))} \cup {Fetched(FALSE, d) : d \in AgentInfos}

\* the registry stays within the bound on the length of an index entry
Indexable(reg) == \A s \in SkillNames : Len(reg.skill_index[s]) <= MaxIndexed

\* a caller discovers the agents of one or two URLs
DiscoverAgents ==
  /\ \E fetched \in SeqsUpTo(Fetches, MaxUrls) \ {<<>>} :
       \E reg \in {discover_agents(registry, fetched)} :
         /\ Indexable(reg)
         /\ registry' = reg
         /\ reg_op' = [op |-> "discover_agents", before |-> registry,
                       all_failed |-> \A i \in DOMAIN fetched : fetched[i].failed]
  /\ UNCHANGED <<tmvars, waitvars, turnvars, coordvars, runvars, padvars, todovars,
                 histvars, hcall, sendvars, routevars, pmvars, statevars>>

\* a caller adds one agent
AddAgent ==
  /\ \E info \in AgentInfos :
       \E reg \in {add_agent(registry, info)} :
         /\ Indexable(reg)
         /\ registry' = reg
         /\ reg_op' = [op |-> "add_agent", before |-> registry, all_failed |-> FALSE]
  /\ UNCHANGED <<tmvars, waitvars, turnvars, coordvars, runvars, padvars, todovars,
                 histvars, hcall, sendvars, routevars, pmvars, statevars>>

NextRegistry == DiscoverAgents \/ AddAgent

(***************************************************************************)
(* Specifications.                                                         *)
(***************************************************************************)
Init ==
  /\ tasks = EmptyManager.tasks
  /\ context_tasks = EmptyManager.context_tasks
  /\ active_tasks = EmptyManager.active_tasks
  /\ clock = 0
  /\ op = <<None, None>>
  /\ ret = None
  /\ wpc = "idle"
  /\ wcall = None
  /\ wid = None
  /\ max_wait = 0
  /\ poll_interval = 0
  /\ start_time = 0
  /\ wnow = 0
  /\ wtask = NoTask
  /\ tpc = "idle"
  /\ llm_output = <<>>
  /\ scratchpad = <<>>
  /\ todo = <<>>
  /\ agent_trajectories = <<>>
  /\ parsed = Parsed(<<>>, <<>>, FALSE)
  /\ handled = <<>>
  /\ result = NoResult
  /\ query_outcomes = <<>>
  /\ cpc = "idle"
  /\ cmode = None
  /\ cagents = <<>>
  /\ calls = <<>>
  /\ cstep = 0
  /\ current_message = <<>>
  /\ responses = <<>>
  /\ recorded = <<>>
  /\ cresult = <<>>
  /\ agent_load = [a \in AgentIds |-> 0]
  /\ rpc = "idle"
  /\ rfn = None
  /\ max_turns = 0
  /\ turn_logger = None
  /\ turns_executed = 0
  /\ state_done = FALSE
  /\ state_finish_message = None
  /\ history = <<>>
  /\ history_at_start = 0
  /\ turn_outcome = None
  /\ errors_logged = 0
  /\ run_ret = NoReturn
  /\ pad_appended = Appended(TRUE, <<>>)
  /\ todo_op = <<None, None, <<>>>>
  /\ cached_prompt = <<>>
  /\ hist_op = <<None, <<>>, <<>>, <<>>>>
  /\ prompt_ret = Rendering(TRUE, <<>>)
  /\ hcall = NoCall
  /\ spc = "idle"
  /\ sclient = None
  /\ sent = <<>>
  /\ backoffs = 0
  /\ send_ret = NoSendResult
  /\ route_op = NoRoute
  /\ pmpc = "idle"
  /\ task_status = None
  /\ status_log = <<>>
  /\ pm_error = None
  /\ load_before = [a \in AgentIds |-> 0]
  /\ ostate = NewState
  /\ state_op = None
  /\ dict_ret = <<>>
  /\ registry = NewRegistry
  /\ reg_op = [op |-> None, before |-> NewRegistry, all_failed |-> FALSE]

SpecTasks == Init /\ [][NextTasks]_vars

SpecWait == Init /\ [][NextWait]_vars

\* The poll loop runs until it returns or raises: neither get_task nor
\* time.sleep blocks forever.
SpecWaitFair == SpecWait /\ WF_vars(Poll) /\ WF_vars(Sleep)

SpecTurn == Init /\ [][NextTurn]_vars

SpecCoord == Init /\ [][NextCoord]_vars

SpecRun == Init /\ [][NextRun]_vars

SpecPad == Init /\ [][NextPad]_vars

SpecTodo == Init /\ [][NextTodo]_vars

SpecHistory == Init /\ [][NextHistory]_vars

SpecHandle == Init /\ [][NextHandle]_vars

SpecSend == Init /\ [][NextSend]_vars

\* Every step of the loop is taken in the end: the model call returns or
\* raises, and neither the executor nor the logger blocks forever.
SpecRouter == Init /\ [][NextRouter]_vars

SpecProcess == Init /\ [][NextProcess]_vars

SpecState == Init /\ [][NextState]_vars

SpecRegistry == Init /\ [][NextRegistry]_vars

SpecRunFair ==
  SpecRun /\ WF_vars(LoopTest) /\ WF_vars(TurnRaises \/ TurnExecutes) /\ WF_vars(RunReturns)



(***************************************************************************)
(* Properties of the task state manager.                                   *)
(***************************************************************************)
StoredTerminal(id) == id \in DOMAIN tasks /\ is_terminal(tasks[id])

\* C1: update_task_state on a tracked task whose stored state is terminal
\* returns False and leaves the task (state, updatedAt and every other field),
\* and the rest of the manager, as they were, whatever state is passed.
C1_TerminalUpdateRejected ==
  [][\A id \in TaskIds :
       (StoredTerminal(id) /\ op' = <<"update_task_state", id>>)
         => /\ ret' = "False"
            /\ tasks' = tasks
            /\ context_tasks' = context_tasks
            /\ active_tasks' = active_tasks]_vars

\* an update_task_state call on a terminal task has been rejected
C1_Witness ==
  \E id \in TaskIds :
    /\ StoredTerminal(id)
    /\ op = <<"update_task_state", id>>
    /\ ret = "False"

\* C2: once the stored copy of a task is terminal, no update_task_state call
\* and no add_task upsert (send_message, get_task, list_tasks, cancel_task)
\* changes its state.
C2_TerminalStaysTerminal ==
  [][\A id \in TaskIds :
       (StoredTerminal(id) /\ op'[1] # "reset")
         => (id \in DOMAIN tasks' /\ tasks'[id].state = tasks[id].state)]_vars

\* the lifecycle order submitted -> working -> {input-required,
\* auth-required} -> {completed, failed, canceled, rejected}
Rank(st) ==
  CASE st = "submitted" -> 0
    [] st = "working" -> 1
    [] st \in {"input-required", "auth-required"} -> 2
    [] OTHER -> 3

\* C3: neither update_task_state nor an add_task upsert moves a tracked
\* task's stored state against the lifecycle order.
C3_LifecycleOrder ==
  [][\A id \in TaskIds :
       (id \in DOMAIN tasks /\ id \in DOMAIN tasks' /\ op'[1] # "reset")
         => Rank(tasks'[id].state) >= Rank(tasks[id].state)]_vars


(***************************************************************************)
(* Properties of wait_for_task and send_and_wait.                          *)
(***************************************************************************)
\* C4: a wait_for_task or send_and_wait call that returns normally returns
\* a task in completed, failed, canceled or rejected.
C4_ReturnsOnlyTerminal ==
  wpc = "returned" => wtask.state \in {"completed", "failed", "canceled", "rejected"}

\* send_and_wait has returned a task
C4_Witness ==
  /\ wpc = "returned"
  /\ wcall = "send_and_wait"
  /\ wtask.state = "failed"

Elapsed == wnow - start_time

\* C5: a wait always ends (with TimeoutError when no poll sees a terminal
\* task and no poll fails); the timeout is raised only when the elapsed time
\* exceeds max_wait, and the loop never goes on to sleep once it does.
C5_TimeoutBoundsWait ==
  /\ [](wpc = "timeout" => Elapsed > max_wait)
  /\ [](wpc = "sleep" => Elapsed <= max_wait)
  /\ [](wpc = "timeout" => ~is_terminal(wtask))
  /\ (wpc \in {"poll", "sleep"}) ~> (wpc \in {"returned", "timeout", "raised"})

\* TimeoutError was raised after more than one poll
C5_Witness ==
  /\ wpc = "timeout"
  /\ wcall = "wait_for_task"
  /\ Elapsed > max_wait
  /\ Elapsed >= 2 * poll_interval

(***************************************************************************)
(* Properties of the turn executor and the action parser.                  *)
(***************************************************************************)
\* a step in which execute runs on a model text and returns
ExecuteStep == tpc = "idle" /\ tpc' = "done"

\* the handler was not invoked and no working-memory store changed
StoresUntouched ==
  /\ handled' = <<>>
  /\ scratchpad' = scratchpad
  /\ todo' = todo
  /\ agent_trajectories' = agent_trajectories

HasActionBlock(text) == \E i \in DOMAIN text : text[i].kind = "block"

\* C6: execute on a text with no action block returns done=true,
\* has_error=true, no executed actions and exactly one environment response,
\* without a handler call or a change of scratchpad, todo list or trajectories.
C6_NoActionBlock ==
  [][(ExecuteStep /\ ~HasActionBlock(llm_output'))
       => /\ ~parsed'.found_action_attempt
          /\ result'.done
          /\ result'.has_error
          /\ result'.actions_executed = <<>>
          /\ Len(result'.env_responses) = 1
          /\ StoresUntouched]_vars

\* execute has returned on prose while the todo list holds an item
C6_Witness ==
  /\ tpc = "done"
  /\ llm_output # <<>>
  /\ ~HasActionBlock(llm_output)
  /\ result.done
  /\ todo # <<>>

\* the prefix of acts up to and including its first FinishStageAction, all
\* of acts when it has none
RECURSIVE ThroughFirstFinish(_)
ThroughFirstFinish(acts) ==
  IF acts = <<>> THEN <<>>
  ELSE IF Head(acts).type = "finish_stage" THEN <<Head(acts)>>
  ELSE <<Head(acts)>> \o ThroughFirstFinish(Tail(acts))

HasFinish(acts) == \E i \in DOMAIN acts : acts[i].type = "finish_stage"

HandledActions == [i \in DOMAIN handled |-> handled[i].action]

\* C7: the actions execute handles, and the actions it reports as executed,
\* are the parsed actions in parse order up to and including the first
\* FinishStage; with a FinishStage the result has done=true and that action's
\* message, and without one (the text having an action block) done=false.
C7_StopsAtFirstFinish ==
  tpc = "done" =>
    /\ HandledActions = ThroughFirstFinish(parsed.actions)
    /\ result.actions_executed = HandledActions
    /\ HasFinish(parsed.actions) =>
         /\ result.done
         /\ result.finish_message = HandledActions[Len(HandledActions)].message
    /\ (parsed.found_action_attempt /\ ~HasFinish(parsed.actions)) =>
         /\ ~result.done
         /\ result.finish_message = None

\* a FinishStage was executed and the action parsed after it was not
C7_Witness ==
  /\ tpc = "done"
  /\ Len(parsed.actions) = 2
  /\ parsed.actions[1].type = "finish_stage"
  /\ parsed.actions[2].type = "update_todo"
  /\ Len(handled) = 1
  /\ result.done
  /\ result.finish_message = "m"

\* C8: when the text has an action block, no action was parsed and there are
\* parse errors, execute returns has_error=true, done=false, no executed
\* actions and one "[PARSE ERROR] ..." response per parse error, in order,
\* without a handler call or a change of a working-memory store.
C8_OnlyParseErrors ==
  [][(/\ ExecuteStep
      /\ HasActionBlock(llm_output')
      /\ parsed'.actions = <<>>
      /\ parsed'.parsing_errors # <<>>)
       => /\ result'.has_error
          /\ ~result'.done
          /\ result'.finish_message = None
          /\ result'.actions_executed = <<>>
          /\ result'.env_responses =
               [i \in DOMAIN parsed'.parsing_errors |->
                  "[PARSE ERROR] " \o parsed'.parsing_errors[i]]
          /\ StoresUntouched]_vars

\* execute has returned on two malformed blocks while the scratchpad holds
\* a note
C8_Witness ==
  /\ tpc = "done"
  /\ Len(llm_output) = 2
  /\ parsed.actions = <<>>
  /\ Len(parsed.parsing_errors) = 2
  /\ Len(result.env_responses) = 2
  /\ ~result.done
  /\ scratchpad # <<>>

\* C9: with parse errors and at least one parsed action, the responses
\* start with one "[PARSE ERROR] ..." entry per parse error, followed by one
\* response per executed action; the valid actions are executed up to a
\* FinishStage; has_error=true.  And after an action whose handler reported
\* an error the next parsed action is still handled.
C9_ErrorsDoNotStopActions ==
  /\ (tpc = "done" /\ parsed.parsing_errors # <<>> /\ parsed.actions # <<>>) =>
       /\ result.has_error
       /\ result.actions_executed = ThroughFirstFinish(parsed.actions)
       /\ Len(result.env_responses)
            = Len(parsed.parsing_errors) + Len(result.actions_executed)
       /\ \A i \in DOMAIN parsed.parsing_errors :
            result.env_responses[i] = "[PARSE ERROR] " \o parsed.parsing_errors[i]
  /\ tpc = "done" =>
       \A i \in DOMAIN handled :
         (handled[i].is_error /\ i < Len(parsed.actions)) =>
           /\ i < Len(handled)
           /\ handled[i + 1].action = parsed.actions[i + 1]
           /\ result.has_error

\* a malformed block came with a valid action, and the action was executed
\* and succeeded
C9_Witness ==
  /\ tpc = "done"
  /\ Len(parsed.parsing_errors) = 1
  /\ Len(parsed.actions) = 1
  /\ Len(handled) = 1
  /\ ~handled[1].is_error
  /\ result.has_error
  /\ Len(result.env_responses) = 2

KnownTypes == {"query_agent", "update_scratchpad", "update_todo", "finish_stage"}

\* the fields an action of type t cannot be built without
RequiredFields(t) ==
  CASE t = "query_agent" -> {"agent_id", "query"}
    [] t = "update_scratchpad" -> {"content", "operation"}
    [] t = "update_todo" -> {"item", "operation"}
    [] t = "finish_stage" -> {"message", "summary"}
    [] OTHER -> {}

\* the field's element is in the block and has text
FieldGiven(b, n) == b.f[n] # Absent /\ b.f[n] # ""

IntegerTexts == {"0", "1", "2", "-1"}

\* a malformed block: nested fields that are not well-formed, a required
\* field missing or empty, or an index that is not an integer
Malformed(b) ==
  \/ ~b.xml
  \/ /\ b.type \in KnownTypes
     /\ \/ \E n \in RequiredFields(b.type) : ~FieldGiven(b, n)
        \/ /\ b.type = "update_todo"
           /\ FieldGiven(b, "index")
           /\ b.f["index"] \notin IntegerTexts

\* a block with a known type and all its required fields
Valid(b) == b.type \in KnownTypes /\ ~Malformed(b)

\* action a is built from the fields of block b
BuiltFrom(a, b) ==
  /\ a.type = b.type
  /\ \A n \in RequiredFields(b.type) : a[n] = Strip(b.f[n])

\* what str(e) can be for the exception a malformed block raises
ParseFailures ==
  {"not well-formed (invalid token)"}
    \cup {"Required tag '" \o n \o "' not found or empty" : n \in FieldNames}
    \cup {"invalid literal for int() with base 10: '" \o x \o "'" : x \in {"x"}}

HasKnownType(seg) == seg.kind = "block" /\ seg.type \in KnownTypes

\* C11: a block whose type is none of query_agent, update_scratchpad,
\* update_todo, finish_stage contributes nothing, whatever its content: the
\* actions and the parse errors are those of the text's known-type blocks.
C11_UnknownTypeSkipped ==
  tpc = "done" =>
    LET known == SelectSeq(llm_output, HasKnownType)
    IN  /\ parsed.actions = parse_response(known).actions
        /\ parsed.parsing_errors = parse_response(known).parsing_errors

\* Action.to_dict: the type and the fields of the action, in order, as pairs
\* <<name, value>>; an absent Optional value is None
to_dict(a) ==
  CASE a.type = "query_agent" ->
         <<<<"type", a.type>>, <<"agent_id", a.agent_id>>, <<"query", a.query>>,
           <<"context_id", a.context_id>>>>
    [] a.type = "update_scratchpad" ->
         <<<<"type", a.type>>, <<"content", a.content>>, <<"operation", a.operation>>>>
    [] a.type = "update_todo" ->
         <<<<"type", a.type>>, <<"item", a.item>>, <<"operation", a.operation>>,
           <<"index", IF a.index = <<>> THEN None ELSE Str(a.index[1])>>>>
    [] a.type = "finish_stage" ->
         <<<<"type", a.type>>, <<"message", a.message>>, <<"summary", a.summary>>>>

IsGiven(pair) == pair[2] # None

\* the action block written from a serialization d: the type attribute and
\* one nested sub-field per field that has a value
BlockOf(d) == Blk(d[1][2], SelectSeq(Tail(d), IsGiven))

\* the actions of the round trip: every variant, with and without its
\* optional fields, over field values free of surrounding whitespace
RoundTripActions ==
  {[type |-> "query_agent", agent_id |-> a, query |-> "q", context_id |-> c] :
     a \in {"ag1", "ghost"}, c \in {None, "c1"}}
    \cup {UpdateScratchpadAction("a", o) : o \in {"append", "replace", "clear"}}
    \cup {UpdateTodoAction("a", o, x) :
            o \in {"add", "complete", "remove"}, x \in {<<>>, <<0>>}}
    \cup {FinishStageAction("m", "s")}

\* C12: parsing the block written from an action's canonical serialization
\* yields exactly that action, no parse error and found_action_attempt.
C12_ParseRoundTrips ==
  tpc = "done" =>
    \A a \in RoundTripActions :
      llm_output = <<BlockOf(to_dict(a))>> =>
        /\ parsed.actions = <<a>>
        /\ parsed.parsing_errors = <<>>
        /\ parsed.found_action_attempt

(***************************************************************************)
(* Properties of the multi-agent coordination.                             *)
(***************************************************************************)
Failed(call) == call.outcome.done /\ ~call.outcome.ok

Succeeded(call) == call.outcome.done /\ call.outcome.ok

\* C13: in sequential coordination a failed send_message is the last call
\* made: the coordination has raised, no agent after the failed one was
\* invoked, the last recorded response is the failed agent's error response,
\* and the error raised is "Critical agent <id> failed: <error message>".
C13_SequentialFailFast ==
  cmode = "sequential" =>
    \A k \in DOMAIN calls :
      Failed(calls[k]) =>
        /\ cpc = "raised"
        /\ k = Len(calls)
        /\ \A j \in DOMAIN calls : calls[j].index = j /\ calls[j].agent = cagents[j]
        /\ recorded[Len(recorded)]
             = AgentResponse(calls[k].agent, <<>>, FALSE, calls[k].outcome.err)
        /\ cresult = <<"Critical agent " \o cagents[k] \o " failed: "
                         \o calls[k].outcome.err>>

\* the second of three agents failed and the third was never invoked
C13_Witness ==
  /\ cmode = "sequential"
  /\ cpc = "raised"
  /\ Len(cagents) = 3
  /\ Len(calls) = 2
  /\ Succeeded(calls[1])
  /\ Failed(calls[2])

\* text contains part
Contains(text, part) ==
  \E k \in 1..(Len(text) - Len(part) + 1) : SubSeq(text, k, k + Len(part) - 1) = part

ParallelOver == cmode = "parallel" /\ cpc \in {"returned", "raised"}

\* C14: when parallel coordination is over, every selected agent was sent
\* the task message; the i-th recorded response belongs to the i-th agent
\* and says whether it failed and with what error; the task has returned
\* iff some agent succeeded, and raised iff all failed; the returned text
\* contains the content of every agent that succeeded and nothing of an
\* agent that failed.
C14_ParallelFailuresIsolated ==
  ParallelOver =>
    /\ Len(calls) = Len(cagents)
    /\ Len(recorded) = Len(cagents)
    /\ \A i \in DOMAIN cagents :
         /\ calls[i].agent = cagents[i]
         /\ calls[i].input = Request
         /\ calls[i].outcome.done
         /\ recorded[i].agent_id = cagents[i]
         /\ recorded[i].success = calls[i].outcome.ok
         /\ Failed(calls[i]) => recorded[i].error_message = calls[i].outcome.err
    /\ (cpc = "returned") = (\E i \in DOMAIN calls : Succeeded(calls[i]))
    /\ (cpc = "raised") = (\A i \in DOMAIN calls : Failed(calls[i]))
    /\ cpc = "returned" =>
         \A i \in DOMAIN calls :
           /\ Succeeded(calls[i]) => Contains(cresult, calls[i].outcome.content)
           /\ Failed(calls[i]) =>
                /\ ~Contains(cresult, Reply(cagents[i]))
                /\ ~Contains(cresult, <<"Agent " \o cagents[i] \o " Response:\n">>)

\* of three agents the second failed, the others succeeded, and the task
\* returned
C14_Witness ==
  /\ ParallelOver
  /\ cpc = "returned"
  /\ Len(cagents) = 3
  /\ Succeeded(calls[1])
  /\ Failed(calls[2])
  /\ Succeeded(calls[3])

InFlight == {k \in DOMAIN calls : ~calls[k].outcome.done}

\* C15: in parallel coordination no more than max_concurrent_agents
\* send_message calls are in flight at any time, and the responses are
\* processed and aggregated only once every call has finished.
C15_BoundedFanOut ==
  cmode = "parallel" =>
    /\ Cardinality(InFlight) <= MaxConcurrentAgents
    /\ (recorded # <<>> \/ cpc \in {"returned", "raised"}) => InFlight = {}

CoordOver == cpc \in {"returned", "raised"}

\* C16: in collaborative coordination the agents are called one at a time
\* in selection order; the input of each contains the request and the
\* content of every earlier agent that succeeded; a failure is recorded and
\* the later agents are still called; the task raises iff every agent
\* failed, and otherwise returns the content of the last agent that
\* succeeded.
C16_CollaborativeAccumulates ==
  cmode = "collaborative" =>
    /\ Cardinality(InFlight) <= 1
    /\ \A j \in DOMAIN calls :
         /\ calls[j].index = j
         /\ calls[j].agent = cagents[j]
         /\ Contains(calls[j].input, Request)
         /\ \A i \in 1..(j - 1) :
              /\ calls[i].outcome.done
              /\ Succeeded(calls[i]) => Contains(calls[j].input, calls[i].outcome.content)
    /\ \A j \in DOMAIN recorded :
         /\ recorded[j].agent_id = cagents[j]
         /\ recorded[j].success = calls[j].outcome.ok
    /\ CoordOver =>
         /\ Len(calls) = Len(cagents)
         /\ Len(recorded) = Len(cagents)
         /\ (cpc = "raised") = (\A i \in DOMAIN calls : Failed(calls[i]))
         /\ cpc = "returned" =>
              \E i \in DOMAIN calls :
                /\ Succeeded(calls[i])
                /\ \A j \in (i + 1)..Len(calls) : Failed(calls[j])
                /\ cresult = calls[i].outcome.content

\* two agents succeeded, the third was sent both contributions and
\* failed, and the answer is the second agent's
C16_Witness ==
  /\ cmode = "collaborative"
  /\ cpc = "returned"
  /\ Len(calls) = 3
  /\ Succeeded(calls[1])
  /\ Succeeded(calls[2])
  /\ Failed(calls[3])
  /\ Contains(calls[3].input, Reply(cagents[1]))
  /\ cresult = Reply(cagents[2])

\* C17: in sequential coordination the agents are called one at a time in
\* selection order, each only after the one before it has returned; the
\* first is sent the task message, each later one a message containing the
\* response content of the agent before it; when all have succeeded the
\* answer is the last agent's content.
C17_SequentialPipeline ==
  cmode = "sequential" =>
    /\ Cardinality(InFlight) <= 1
    /\ \A j \in DOMAIN calls :
         /\ calls[j].index = j
         /\ calls[j].agent = cagents[j]
         /\ j = 1 => calls[j].input = Request
         /\ j > 1 =>
              /\ Succeeded(calls[j - 1])
              /\ Contains(calls[j].input, calls[j - 1].outcome.content)
              /\ Contains(calls[j].input, Request)
    /\ cpc = "returned" =>
         /\ Len(calls) = Len(cagents)
         /\ \A j \in DOMAIN calls : Succeeded(calls[j])
         /\ cresult = calls[Len(calls)].outcome.content

\* three agents were called in turn and the answer is the third's
C17_Witness ==
  /\ cmode = "sequential"
  /\ cpc = "returned"
  /\ Len(cagents) = 3
  /\ Len(calls) = 3
  /\ Contains(calls[3].input, Reply(cagents[2]))
  /\ cresult = Reply(cagents[3])

C19_TurnRecordedEveryTurn ==
  rpc = "returned" /\ history_at_start + turns_executed <= HistoryMaxTurns =>
    Len(history) = history_at_start + turns_executed

\* C20: after any sequence of append, replace, clear and remove_item calls
\* the scratchpad holds at most max_items entries, and once max_items + k
\* entries with text were appended to an empty scratchpad (k >= 0, nothing
\* but appends in between) it holds exactly the last max_items of them, in
\* the order they were appended.
C20_ScratchpadCapacity ==
  /\ Len(scratchpad) <= ScratchpadMaxItems
  /\ pad_appended.valid /\ Len(pad_appended.entries) >= ScratchpadMaxItems =>
       /\ Len(scratchpad) = ScratchpadMaxItems
       /\ scratchpad =
            SubSeq(pad_appended.entries,
                   Len(pad_appended.entries) - ScratchpadMaxItems + 1,
                   Len(pad_appended.entries))

\* max_items + MaxExtra entries were appended, the evicted ones differ from
\* the kept ones and the kept ones differ among themselves
C20_Witness ==
  /\ pad_appended.valid
  /\ Len(pad_appended.entries) = ScratchpadMaxItems + MaxExtra
  /\ pad_appended.entries[1] # scratchpad[1]
  /\ scratchpad[1] # scratchpad[Len(scratchpad)]

\* the items not completed, in order
PendingItems(items) == SelectSeq(items, NotCompleted)

\* s is the end of t
IsSuffix(s, t) == Len(s) <= Len(t) /\ s = SubSeq(t, Len(t) - Len(s) + 1, Len(t))

\* s is t with some elements left out
RECURSIVE IsSubsequence(_, _)
IsSubsequence(s, t) ==
  IF s = <<>> THEN TRUE
  ELSE IF t = <<>> THEN FALSE
  ELSE IF Head(s) = Head(t) THEN IsSubsequence(Tail(s), Tail(t))
  ELSE IsSubsequence(s, Tail(t))

\* the last direct call was an add_item with text on a full list
AddOverflowed ==
  /\ todo_op[1] = "add_item"
  /\ ~IsBlank(todo_op[2])
  /\ Len(todo_op[3]) = TodoMaxItems

\* the full list the overflowing add_item found, with the new item appended
Overfull == Append(todo_op[3], TodoItem(Strip(todo_op[2])))

\* C21: after any sequence of add_item, complete_item, uncomplete_item and
\* remove_item calls the todo list holds at most max_items items; after an
\* add_item that overflowed, the survivors are the list with some items left
\* out (order kept), the surviving pending items are the newest pending ones,
\* and a pending item is gone only if no completed item survived and the
\* list is exactly full.
C21_TodoCapacity ==
  /\ Len(todo) <= TodoMaxItems
  /\ AddOverflowed =>
       /\ IsSubsequence(todo, Overfull)
       /\ IsSuffix(PendingItems(todo), PendingItems(Overfull))
       /\ Len(PendingItems(todo)) < Len(PendingItems(Overfull)) =>
            /\ PendingItems(todo) = todo
            /\ Len(todo) = TodoMaxItems

\* an add_item overflowed a full list of pending items with distinct texts:
\* the oldest one went
C21_Witness ==
  /\ AddOverflowed
  /\ PendingItems(todo_op[3]) = todo_op[3]
  /\ todo_op[3][1] # todo[1]
  /\ todo[1] # todo[Len(todo)]

\* an add_item overflowed a full list that held a completed item: the
\* completed items went and every pending item stayed
C21_WitnessPruned ==
  /\ AddOverflowed
  /\ PendingItems(todo_op[3]) # todo_op[3]
  /\ PendingItems(todo_op[3]) # <<>>
  /\ todo = PendingItems(Overfull)

\* what to_prompt() renders from scratch for the turns
fresh_rendering(turns) == IF turns = <<>> THEN Rendering(TRUE, <<>>) ELSE render(turns)

\* C22: after any sequence of add_turn (and to_prompt, clear) calls the
\* history holds at most max_turns turns; an add_turn leaves the end of the
\* old turns followed by the new turn (the oldest dropped first, order kept)
\* and no cached prompt; and a to_prompt() without limit returns the fresh
\* rendering of the current turns.
C22_HistoryBoundedCacheFresh ==
  /\ Len(history) <= HistoryMaxTurns
  /\ hist_op[1] = "add_turn" =>
       /\ IsSuffix(history, hist_op[3] \o hist_op[2])
       /\ Len(history) = IF Len(hist_op[3]) < HistoryMaxTurns
                            THEN Len(hist_op[3]) + 1 ELSE HistoryMaxTurns
       /\ cached_prompt = <<>>
  /\ hist_op[1] = "to_prompt" /\ hist_op[2] = <<>> =>
       prompt_ret = fresh_rendering(history)

\* a turn was added to a full history whose prompt was cached: the oldest
\* turn went and the cache is gone
C22_Witness ==
  /\ hist_op[1] = "add_turn"
  /\ Len(hist_op[3]) = HistoryMaxTurns
  /\ hist_op[4] = <<render(hist_op[3])>>
  /\ hist_op[3][1] # history[1]
  /\ cached_prompt = <<>>

\* to_prompt() returned a prompt that it took from the cache
C22_WitnessCached ==
  /\ hist_op[1] = "to_prompt" /\ hist_op[2] = <<>>
  /\ hist_op[4] = <<prompt_ret>>
  /\ Len(history) = HistoryMaxTurns

\* the action is an UpdateTodo complete or remove whose index is missing or
\* is no index of items
BadTodoIndex(action, items) ==
  /\ action.type = "update_todo"
  /\ action.operation \in {"complete", "remove"}
  /\ \/ action.index = <<>>
     \/ action.index[1] < 0
     \/ action.index[1] >= Len(items)

\* C23: an UpdateTodo complete or remove whose index is missing or is not
\* an index of the current todo list gets an error response, and leaves the
\* todo list as it was.  Stated for the first action of a turn, which finds
\* the todo list of before the turn.
C23_InvalidTodoIndexIsError ==
  [][(ExecuteStep /\ handled' # <<>> /\ BadTodoIndex(handled'[1].action, todo))
       => /\ handled'[1].is_error
          /\ Len(handled') = 1 => todo' = todo]_vars

\* the action is an UpdateTodo add with a non-empty item
AddsItem(action) ==
  /\ action.type = "update_todo"
  /\ action.operation = "add"
  /\ action.item # ""

\* the turn's first action is an UpdateTodo add with a non-empty item, and
\* it is the only action handled
OnlyAddHandled ==
  /\ ExecuteStep
  /\ Len(handled') = 1
  /\ AddsItem(handled'[1].action)

\* the handler's response to the first action handled in the step
FirstResponse == result'.env_responses[Len(parsed'.parsing_errors) + 1]

\* C24 as stated: an UpdateTodo add with non-empty item x gets the non-error
\* response "Added todo item: x" and leaves the pending count exactly one
\* higher, in every state of the todo list.
C24_AddIncrementsPending ==
  [][OnlyAddHandled
       => /\ ~handled'[1].is_error
          /\ FirstResponse = "Added todo item: " \o handled'[1].action.item
          /\ Len(PendingItems(todo')) = Len(PendingItems(todo)) + 1]_vars

\* C24, amended: an UpdateTodo add with non-empty item x gets the non-error
\* response "Added todo item: x"; the pending count is one higher when fewer
\* than max_items items were pending, and stays at max_items when the list
\* was full of pending items (the oldest one is evicted for the new one).
C24_AddIncrementsPendingBelowCapacity ==
  [][OnlyAddHandled
       => /\ ~handled'[1].is_error
          /\ FirstResponse = "Added todo item: " \o handled'[1].action.item
          /\ Len(PendingItems(todo')) =
               IF Len(PendingItems(todo)) < TodoMaxItems
                 THEN Len(PendingItems(todo)) + 1
                 ELSE TodoMaxItems
          /\ todo'[Len(todo')] = TodoItem(handled'[1].action.item)]_vars

\* an add was the only action of a turn and left a full list of pending items
C24_Witness ==
  /\ tpc = "done"
  /\ Len(handled) = 1
  /\ AddsItem(handled[1].action)
  /\ ~handled[1].is_error
  /\ Len(todo) = TodoMaxItems
  /\ PendingItems(todo) = todo

\* C25: for a FinishStage action the handler's response is the action's
\* message itself, with is_error false, and the handler changes neither
\* the scratchpad nor the todo list nor the trajectories.  Stated for a turn
\* whose only handled action is the FinishStage.
C25_FinishMessageVerbatim ==
  [][(ExecuteStep /\ Len(handled') = 1 /\ handled'[1].action.type = "finish_stage")
       => /\ FirstResponse = handled'[1].action.message
          /\ ~handled'[1].is_error
          /\ scratchpad' = scratchpad
          /\ todo' = todo
          /\ agent_trajectories' = agent_trajectories]_vars

\* the positions of the handled actions that queried a registered agent and
\* whose send_and_wait returned a task in the given state
QueriesEnded(state) ==
  {i \in DOMAIN handled :
     /\ handled[i].action.type = "query_agent"
     /\ handled[i].action.agent_id \in RegisteredAgents
     /\ i \in DOMAIN query_outcomes
     /\ query_outcomes[i] = state}

\* the trajectory entries execute returned
ReturnedTrajectories ==
  IF result.agent_trajectories = <<>> THEN <<>> ELSE result.agent_trajectories[1]

\* C26: a QueryAgent action to a registered agent whose remote task is
\* completed gets a non-error response and one trajectory entry under the
\* remote task id, holding the agent id, the query, the response text and
\* the task id; one whose task ended failed gets an error response and no
\* trajectory entry.
C26_QueryAgentOutcome ==
  tpc = "done" =>
    /\ \A i \in QueriesEnded("completed") :
         /\ ~handled[i].is_error
         /\ TaskIdAt(i) \in DOMAIN ReturnedTrajectories
         /\ ReturnedTrajectories[TaskIdAt(i)].agent_id = handled[i].action.agent_id
         /\ ReturnedTrajectories[TaskIdAt(i)].query = handled[i].action.query
         /\ ReturnedTrajectories[TaskIdAt(i)].task_id = TaskIdAt(i)
    /\ \A i \in QueriesEnded("failed") :
         /\ handled[i].is_error
         /\ TaskIdAt(i) \notin DOMAIN ReturnedTrajectories

\* the positions of the handled actions that queried an agent the registry
\* does not know
UnknownAgentQueries ==
  {i \in DOMAIN handled :
     /\ handled[i].action.type = "query_agent"
     /\ handled[i].action.agent_id \notin RegisteredAgents}

\* C27: a QueryAgent action whose agent_id is not in the registry gets the
\* error response "Agent '<id>' not found in registry" without a remote
\* call, is among the turn's executed actions, marks the turn errored, and
\* the next parsed action is still handled.
C27_UnknownAgentHandled ==
  tpc = "done" =>
    \A i \in UnknownAgentQueries :
      /\ handled[i].is_error
      /\ ~handled[i].remote_call
      /\ i \notin DOMAIN query_outcomes
      /\ result.env_responses[Len(parsed.parsing_errors) + i]
           = "Agent '" \o handled[i].action.agent_id \o "' not found in registry"
      /\ result.actions_executed[i] = handled[i].action
      /\ result.has_error
      /\ ReturnedTrajectories = <<>> \/ TaskIdAt(i) \notin DOMAIN ReturnedTrajectories
      /\ i < Len(parsed.actions) =>
           /\ Len(handled) > i
           /\ handled[i + 1].action = parsed.actions[i + 1]

\* a query to an unknown agent was followed by an action that succeeded
C27_Witness ==
  /\ tpc = "done"
  /\ 1 \in UnknownAgentQueries
  /\ Len(handled) = 2
  /\ ~handled[2].is_error
  /\ Len(result.actions_executed) = 2

\* C28: handle_action never lets an exception out: every call returns a pair
\* (text, is_error), and when the remote call raised (TimeoutError, RPC
\* error), the remote task failed or a store manager raised while the action
\* was handled, is_error is true.
C28_HandlerNeverRaises ==
  /\ ~hcall.raised
  /\ Strikes(hcall.failure, hcall.action) => hcall.is_error

\* a store manager raised while an UpdateTodo add was handled, and the
\* handler returned an error response
C28_Witness ==
  /\ hcall.failure = "store write"
  /\ hcall.action.type = "update_todo"
  /\ hcall.action.operation = "add"
  /\ ~hcall.raised
  /\ hcall.is_error

\* send_and_wait raised TimeoutError while a query to a registered agent
\* was handled, and the handler returned an error response
C28_WitnessTimeout ==
  /\ hcall.failure = "TimeoutError"
  /\ makes_remote_call(hcall.action)
  /\ ~hcall.raised
  /\ hcall.is_error

\* every request of the call ended in one of the outcomes
AllSent(outcomes) == sent # <<>> /\ \A i \in DOMAIN sent : sent[i] \in outcomes

\* C29: a remote-agent call whose requests all fail with a transport failure
\* (connection refused, timeout, 5xx) is retried, makes at most 3 attempts
\* in total with a wait between any two of them, and, once it is over, has
\* raised its error to the caller.
C29_TransportFailureRetried ==
  /\ AllSent(TransportFailures) =>
       /\ Len(sent) <= StopAfterAttempt
       /\ backoffs \in {Len(sent) - 1, Len(sent)}
       /\ spc \notin {"returned"}
  /\ AllSent(TransportFailures) /\ spc = "raised" =>
       /\ Len(sent) > 1
       /\ backoffs = Len(sent) - 1
       /\ send_ret.kind = "raised"

\* C30: a remote-agent call that gets a 4xx response, a malformed response
\* or an error envelope is not retried: exactly one request was sent and the
\* call is over with its error.
C30_BadResponseNotRetried ==
  (sent # <<>> /\ sent[1] \in BadResponses) =>
    /\ Len(sent) = 1
    /\ spc \in {"raised", "returned"}
    /\ send_ret.kind \in {"raised", "returned error"}

\* the request whose failure the caller sees: the last one of the call
LastSent == sent[Len(sent)]

\* C31: an A2AClient call that ends with a connection refused, a timeout or
\* a 5xx response raises AgentUnavailableError to the caller, and one that
\* ends with a 4xx, malformed or error-envelope response raises the client
\* error A2AClientError.
C31_TransportFailureIsUnavailable ==
  (sclient = "A2AClient" /\ spc = "raised") =>
    /\ LastSent \in TransportFailures => send_ret.exc = "AgentUnavailableError"
    /\ LastSent \in BadResponses => send_ret.exc = "A2AClientError"

\* the agents of available that meet the request's capability requirement
CapableAgents(request, available) ==
  {available[i] : i \in {j \in DOMAIN available :
     \/ request.required_capabilities = {}
     \/ request.required_capabilities \cap CapabilitiesOf(available[j]) # {}}}

SelectedAgents == {route_op.selected[i] : i \in DOMAIN route_op.selected}

\* C32: load-balanced selection returns at most maxAgents agents, all of
\* them capable, and no capable agent it left out had a strictly lower
\* in-flight counter than an agent it selected.
C32_LeastLoadedSelected ==
  route_op.op = "select_agents" =>
    /\ Len(route_op.selected) <= effective_max_agents(route_op.request)
    /\ SelectedAgents \subseteq CapableAgents(route_op.request, route_op.available)
    /\ \A a \in CapableAgents(route_op.request, route_op.available) \ SelectedAgents :
         \A s \in SelectedAgents : route_op.load[a] >= route_op.load[s]

\* process_message is over: it returned the task or raised
ProcessOver == pmpc \in {"returned", "raised"}

\* C33: once process_message is over the task row is COMPLETED if it
\* returned and FAILED if it raised, what it raised is a
\* TaskExecutionError, a call whose routing or coordination failed has
\* raised, and no COMPLETED is ever written after a FAILED.
C33_FailureIsPersisted ==
  /\ task_status \in TaskStatus \cup {None}
  /\ ProcessOver =>
       /\ task_status \notin {"pending", "routing", "executing"}
       /\ pmpc = "returned" => task_status = "completed" /\ pm_error = None
       /\ pmpc = "raised" => task_status = "failed" /\ pm_error = "TaskExecutionError"
       /\ cpc = "raised" => pmpc = "raised"
  /\ \A i, j \in DOMAIN status_log :
       (i < j /\ status_log[i] = "failed") => status_log[j] # "completed"

\* every agent selected for a parallel task failed, and process_message
\* raised
C33_Witness ==
  /\ pmpc = "raised"
  /\ cmode = "parallel"
  /\ cpc = "raised"
  /\ Len(cagents) > 1
  /\ status_log = <<"pending", "routing", "executing", "failed">>

\* routing found no agent and process_message raised
C33_WitnessRouting ==
  /\ pmpc = "raised"
  /\ status_log = <<"pending", "routing", "failed">>

\* C36: the load counter counts in-flight work: it is never negative, and
\* once process_message is over every agent selected for the task has its
\* counter back at the value it had before the task.
C36_LoadRestored ==
  /\ \A a \in AgentIds : agent_load[a] >= 0
  /\ ProcessOver =>
       \A i \in DOMAIN cagents : agent_load[cagents[i]] = load_before[cagents[i]]

\* the environment responses that answer no executed action
UnpairedResponses ==
  {"No actions were attempted."}
    \cup {ParseErrorResponses(parsed.parsing_errors)[i] : i \in DOMAIN parsed.parsing_errors}

\* C34: the result of a turn has exactly as many environment responses as
\* executed actions, the i-th response answering the i-th executed action:
\* none of them is a response that answers no action.
C34_ResponsesPairedWithActions ==
  tpc = "done" =>
    /\ Len(result.env_responses) = Len(result.actions_executed)
    /\ \A i \in DOMAIN result.env_responses : result.env_responses[i] \notin UnpairedResponses

\* the step is a call of BinduClient.send_message
SendMessageStep == op'[1] = "send_message"

\* C35: a send_message that returns has registered the returned task: the
\* manager's get_task finds it under its task id and its context lists it;
\* a send_message that raises (error envelope, transport failure) leaves
\* the state manager unchanged.
C35_SendMessageRegisters ==
  [][SendMessageStep =>
       /\ ret' = "task" =>
            /\ op'[2] \in DOMAIN tasks'
            /\ tasks'[op'[2]].taskId = op'[2]
            /\ InSeq(op'[2], context_tasks'[tasks'[op'[2]].contextId])
       /\ ret' # "task" =>
            /\ ret' = "raised"
            /\ UNCHANGED <<regvars, statevars, tasks, context_tasks, active_tasks>>]_vars

\* send_message returned a task that was not tracked before, in a context
\* that already listed another task
C35_Witness ==
  /\ op[1] = "send_message"
  /\ ret = "task"
  /\ op[2] \in DOMAIN tasks
  /\ Len(context_tasks[tasks[op[2]].contextId]) > 1
  /\ context_tasks[tasks[op[2]].contextId][Len(context_tasks[tasks[op[2]].contextId])] = op[2]

\* send_message raised while the manager tracked a task
C35_WitnessRaised ==
  /\ op[1] = "send_message"
  /\ ret = "raised"
  /\ DOMAIN tasks # {}

\* C37: active_tasks is exactly the set of the ids of the tracked tasks
\* whose stored state is not terminal.
C37_ActiveTasksExact ==
  active_tasks = {id \in DOMAIN tasks : ~is_terminal(tasks[id])}

\* update_task_state moved a tracked task to a terminal state while
\* another tracked task stayed active
C37_Witness ==
  /\ op[1] = "update_task_state"
  /\ ret = "True"
  /\ is_terminal(tasks[op[2]])
  /\ active_tasks # {}

\* C38: the dictionary to_dict returns has the current values of the
\* State's fields (done, finish_message, current_phase and the phase
\* outputs).
C38_ToDictIsCurrent ==
  state_op = "to_dict" => dict_ret = <<StateDict(ostate)>>

\* the registered agents whose current descriptor lists the skill
AgentsWithSkill(reg, name) ==
  {a \in DOMAIN reg.agents :
     \E i \in DOMAIN reg.agents[a].skills : reg.agents[a].skills[i] = name}

\* C39: get_agents_by_skill(name) returns exactly the registered agents
\* whose current descriptor lists the skill, each exactly once; and a
\* discovery whose fetches all fail leaves the registry and the skill index
\* as they were.
C39_SkillIndexExact ==
  /\ \A name \in SkillNames :
       /\ {get_agents_by_skill(registry, name)[i] :
             i \in DOMAIN get_agents_by_skill(registry, name)}
            = AgentsWithSkill(registry, name)
       /\ \A i, j \in DOMAIN get_agents_by_skill(registry, name) :
            i # j => get_agents_by_skill(registry, name)[i]
                       # get_agents_by_skill(registry, name)[j]
  /\ reg_op.all_failed => registry = reg_op.before

\* C40: the result of a turn whose model text has at least one action block
\* has at least one environment response.
C40_BlockGetsResponse ==
  (tpc = "done" /\ HasActionBlock(llm_output)) => Len(result.env_responses) >= 1

====
